---- MODULE Spec2Model ----
(***************************************************************************)
(* Vehicle-dynamics and track-interaction core of the 3D-Racing game:      *)
(* FixedTimestep (game/loop/FixedTimestep.ts), CarSim (game/sim/CarSim.ts) *)
(* and the simulation tick of Game.ts (tickSim / onFrame).                 *)
(*                                                                         *)
(* Numbers.  The source computes in IEEE doubles.  The physics is         *)
(* modelled in fixed point: a real r is the integer r * ONE, truncated     *)
(* toward zero after every multiplication and division, in the order the   *)
(* source evaluates them.  Lengths are metres, speeds m/s, angles radians  *)
(* and times seconds, all scaled by ONE, so the fixed step 1/120 s is      *)
(* DT = 100.  The two timers that decide how many ticks run (the step      *)
(* accumulator and the nitro timer) are modelled as the doubles they are,  *)
(* bit for bit.  Wall-clock time (performance.now) is in tenths of a       *)
(* millisecond.                                                            *)
(* Fields the physics never reads (pitchRad, accelWorld, prevVelocity,     *)
(* particle, camera and mesh state) are not modelled.                      *)
(***************************************************************************)
EXTENDS Integers, Sequences, FiniteSets, TLC

\* ------------------------------------------------------------------------
\* Fixed-point arithmetic (the model's stand-in for JavaScript numbers)
\* ------------------------------------------------------------------------
\* 120 ticks per second times 100 sub-steps: 1 m, 1 m/s, 1 rad, 1 s
ONE == 120 * 100

Abs(x) == IF x < 0 THEN -x ELSE x

\* Math.sign
Sign(x) == IF x > 0 THEN 1 ELSE IF x < 0 THEN -1 ELSE 0

Min(a, b) == IF a < b THEN a ELSE b

Max(a, b) == IF a > b THEN a ELSE b

\* a * b of two non-negative fixed-point numbers, split so that no
\* intermediate product leaves the 32-bit range
MulPos(a, b) ==
  LET ah == a \div ONE
      al == a % ONE
      bh == b \div ONE
      bl == b % ONE
  IN  ah * bh * ONE + ah * bl + al * bh + (al * bl) \div ONE

\* a * b, truncated toward zero
Mul(a, b) == Sign(a) * Sign(b) * MulPos(Abs(a), Abs(b))

\* a / b of non-negative a and positive b: floor(a * ONE / b), staged
\* (ONE = 100 * 120) so that no intermediate product overflows
DivPos(a, b) ==
  LET q  == a \div b
      r  == a % b
      r1 == r * 100
      q1 == r1 \div b
      r2 == r1 % b
  IN  q * ONE + q1 * 120 + (r2 * 120) \div b

\* a / b, truncated toward zero (b # 0)
Div(a, b) == Sign(a) * Sign(b) * DivPos(Abs(a), Abs(b))

RECURSIVE SqrtIter(_, _)
SqrtIter(x, r) ==
  LET n == (r + DivPos(x, r)) \div 2
  IN  IF n >= r THEN r ELSE SqrtIter(x, n)

RECURSIVE SqrtGuess(_, _)
SqrtGuess(x, g) == IF MulPos(g, g) >= x THEN g ELSE SqrtGuess(x, 2 * g)

\* Math.sqrt: the largest r with r * r <= x (Newton iteration from above)
Sqrt(x) == IF x <= 0 THEN 0 ELSE SqrtIter(x, SqrtGuess(x, ONE))

PI == 37699

TWO_PI == 75398

HALF_PI == 18850

\* an angle reduced to [-pi, pi)
WrapAngle(a) == ((a + PI) % TWO_PI) - PI

\* the angle in [-pi/2, pi/2] with the same sine as r in [-pi, pi)
FoldAngle(r) ==
  IF r > HALF_PI THEN PI - r ELSE IF r < -HALF_PI THEN -PI - r ELSE r

\* x - x^3/3! + x^5/5! - x^7/7! + x^9/9!, x2 = x * x
SinSeries(x, x2) ==
  Mul(x, ONE - Mul(x2 \div 6,
               ONE - Mul(x2 \div 20,
                     ONE - Mul(x2 \div 42, ONE - x2 \div 72))))

\* sine on [-pi/2, pi/2]
SinP(x) == SinSeries(x, Mul(x, x))

\* Math.sin
Sin(a) == SinP(FoldAngle(WrapAngle(a)))

\* 1 - x^2/2! + x^4/4! - ... - x^10/10!, x2 = x * x
CosSeries(x2) ==
  ONE - Mul(x2 \div 2,
        ONE - Mul(x2 \div 12,
              ONE - Mul(x2 \div 30,
                    ONE - Mul(x2 \div 56, ONE - x2 \div 90))))

\* cosine on [-pi/2, pi/2]
CosP(x) == CosSeries(Mul(x, x))

\* cosine of r in [-pi, pi): cos r = -cos(pi - r)
CosWrapped(r) == (IF Abs(r) > HALF_PI THEN -1 ELSE 1) * CosP(FoldAngle(r))

\* Math.cos
Cos(a) == CosWrapped(WrapAngle(a))

\* Math.tan
Tan(a) == Div(Sin(a), Cos(a))

\* z - z^3/3 + z^5/5 - z^7/7 + z^9/9, z2 = z * z
AtanSeries(z, z2) ==
  Mul(z, ONE - Mul(z2, ONE \div 3
               - Mul(z2, ONE \div 5
                     - Mul(z2, ONE \div 7 - z2 \div 9))))

\* arctangent near zero
AtanSmall(z) == AtanSeries(z, Mul(z, z))

\* arctangent on [-1, 1] by one angle halving
AtanUnit(z) == 2 * AtanSmall(Div(z, ONE + Sqrt(ONE + Mul(z, z))))

\* Math.atan: atan z = sign(z) pi/2 - atan(1/z) for |z| > 1
Atan(z) ==
    (IF Abs(z) <= ONE THEN 0 ELSE Sign(z) * HALF_PI)
  + (IF Abs(z) <= ONE THEN 1 ELSE -1)
    * AtanUnit(IF Abs(z) <= ONE THEN z ELSE Div(ONE, z))

\* Math.atan2(y, x)
Atan2(y, x) ==
  IF x = 0 THEN Sign(y) * HALF_PI
  ELSE Atan(Div(y, x)) + (IF x > 0 THEN 0 ELSE IF y >= 0 THEN PI ELSE -PI)

\* Vector3.Dot
Dot(u, v) == Mul(u.x, v.x) + Mul(u.y, v.y) + Mul(u.z, v.z)

\* Vector3.length
Length(v) == Sqrt(Mul(v.x, v.x) + Mul(v.y, v.y) + Mul(v.z, v.z))

\* Vector3.scale
Scale(v, k) == [x |-> Mul(v.x, k), y |-> Mul(v.y, k), z |-> Mul(v.z, k)]

\* Vector3.add
Add(u, v) == [x |-> u.x + v.x, y |-> u.y + v.y, z |-> u.z + v.z]

Vec(a, b, c) == [x |-> a, y |-> b, z |-> c]

\* the decimal literal n/d of the source
Fixed(n, d) == (n * ONE) \div d

\* ------------------------------------------------------------------------
\* The timers (the step accumulator, the nitro timer) count in IEEE doubles,
\* and whether one more tick runs depends on the last bit. A DoubleOf(hi, lo)
\* is the double hi * 2^30 + lo in units of 2^-59 s; it covers the doubles
\* from 2^-7 s up to 4 s and zero, added and subtracted as the processor
\* does it: the exact result rounded to 53 significant bits, ties to even.
\* ------------------------------------------------------------------------
LIMB == 32768 * 32768

DoubleOf(h, l) == [hi |-> h, lo |-> l]

DZero == DoubleOf(0, 0)

DLess(a, b) == a.hi < b.hi \/ (a.hi = b.hi /\ a.lo < b.lo)

DLeq(a, b) == a = b \/ DLess(a, b)

DMin(a, b) == IF DLess(a, b) THEN a ELSE b

\* carry or borrow between the limbs
DNorm(h, l) ==
  IF l < 0 THEN DoubleOf(h - 1, l + LIMB)
  ELSE DoubleOf(h + l \div LIMB, l % LIMB)

\* the spacing of the doubles around v, in units of 2^-59
DUlp(v) ==
  IF v.hi < LIMB \div 128 THEN 1
  ELSE IF v.hi < LIMB \div 64 THEN 2
  ELSE IF v.hi < LIMB \div 32 THEN 4
  ELSE IF v.hi < LIMB \div 16 THEN 8
  ELSE IF v.hi < LIMB \div 8 THEN 16
  ELSE IF v.hi < LIMB \div 4 THEN 32
  ELSE IF v.hi < LIMB \div 2 THEN 64
  ELSE IF v.hi < LIMB THEN 128
  ELSE 256

\* round to nearest, ties to even
DRound(v) ==
  LET q    == DUlp(v)
      r    == v.lo % q
      down == v.lo - r
      up   == IF 2 * r > q \/ (2 * r = q /\ (down \div q) % 2 = 1)
              THEN down + q ELSE down
  IN  DNorm(v.hi, up)

\* a + b
DAdd(a, b) == DRound(DNorm(a.hi + b.hi, a.lo + b.lo))

\* a - b, for a >= b
DSub(a, b) == DRound(DNorm(a.hi - b.hi, a.lo - b.lo))

\* a - b without rounding, for a >= b
DExactSub(a, b) == DNorm(a.hi - b.hi, a.lo - b.lo)

\* ------------------------------------------------------------------------
\* State
\* ------------------------------------------------------------------------
VARIABLES
  sim,          \* the CarSim object: position, velocity, yawRad, basisYaw (the
                \* yaw forwardVec and rightVec were last computed from), isAirborne,
                \* airTime, nitroBoostMultiplier, nitroBoostTimeRemaining,
                \* steerSmoothed
  params,       \* CarSim.params, the tuning given to the constructor
  upd,          \* locals of the last CarSim.update call (history)
  nitroLog,     \* the last activateNitroBoost call and the ticks since
  arranged,     \* the public fields were written directly since construction
  carTicks,     \* CarSim.update calls so far
  course,       \* jump scenario: the held input and the ground behind the ramp
  jump,         \* jump scenario: phase, launch velocity, ticks in flight
  query,        \* a query of the track or the ramps: its arguments, and the
                \* answer once it has been made
  accumulator,  \* FixedTimestep.accumulator, a double
  pc,           \* "idle" between frames, "stepping" inside FixedTimestep.step
  frame,        \* the running step call: its delta, the accumulator it found,
                \* the ticks it has made; and the frames so far
  gameInput,    \* the shared Input object (input in Game.ts): throttle, brake, handbrake, steer,
                \* resetPressed
  clock,        \* performance.now(), in tenths of a millisecond
  lapStartMs,   \* Game.ts lap state (times in tenths of a millisecond)
  lastS,
  laps,
  bestLapSeconds,
  lapTimeSeconds,
  lapLog,       \* the durations of the laps counted since the last reset
  tickLog,      \* the locals of the last tickSim call
  world         \* Game.ts: damageSystem's damage level, collisionCooldown and
                \* speedPadCooldown (doubles)

carVars == <<sim, params, upd, nitroLog, arranged, carTicks>>

jumpVars == <<course, jump, query>>

loopVars == <<accumulator, pc, frame>>

gameVars == <<gameInput, clock, lapStartMs, lastS, laps, bestLapSeconds,
              lapTimeSeconds, lapLog, tickLog, world>>

vars == <<sim, params, upd, nitroLog, arranged, carTicks, course, jump, query,
          accumulator, pc, frame, gameInput, clock, lapStartMs, lastS, laps,
          bestLapSeconds, lapTimeSeconds, lapLog, tickLog, world>>

\* ------------------------------------------------------------------------
\* CarSim (game/sim/CarSim.ts)
\* ------------------------------------------------------------------------
\* the fixed simulation step 1/120 s, as the physics sees it
DT == ONE \div 120

\* the double nearest to 1/120: 0x11111111111111 * 2^-59
StepSizeSeconds == DoubleOf(4473924, 286331153)

\* the dt argument of a tick: fx for the physics, dbl for the timers
StepDt == [fx |-> DT, dbl |-> StepSizeSeconds]

gravity == 25 * ONE

carHeight == Fixed(55, 100)

\* the tuning Game.ts passes to new CarSim(...)
GameParams ==
  [ wheelbase          |-> Fixed(265, 100),
    maxSteerRad        |-> Fixed(55, 100),
    engineAccel        |-> Fixed(215, 10),
    brakeDecel         |-> 34 * ONE,
    drag               |-> Fixed(12, 1000),
    rolling            |-> Fixed(45, 100),
    lateralGrip        |-> 19 * ONE,
    handbrakeGripScale |-> Fixed(35, 100),
    offroadGripScale   |-> Fixed(85, 100),
    offroadDragScale   |-> Fixed(12, 10),
    maxSpeed           |-> 88 * ONE ]

\* the fields of a freshly constructed CarSim
NewCarSim ==
  [ position                |-> Vec(0, carHeight, 0),
    velocity                |-> Vec(0, 0, 0),
    yawRad                  |-> 0,
    basisYaw                |-> 0,
    isAirborne              |-> FALSE,
    airTime                 |-> 0,
    nitroBoostMultiplier    |-> ONE,
    nitroBoostTimeRemaining |-> DZero,
    steerSmoothed           |-> 0 ]

\* activateNitroBoost(duration, multiplier)
ActivateNitroBoost(s, duration, multiplier) ==
  [s EXCEPT !.nitroBoostMultiplier = multiplier,
            !.nitroBoostTimeRemaining = duration]

\* isNitroActive()
IsNitroActive(s) == DLess(DZero, s.nitroBoostTimeRemaining)

\* updateBasis(): forwardVec and rightVec of a yaw
ForwardVec(yaw) == Vec(Sin(yaw), 0, Cos(yaw))

RightVec(yaw) == Vec(Cos(yaw), 0, -Sin(yaw))

\* get speedMps
SpeedMps(s) == Length(s.velocity)

\* get forwardSpeedMps: against forwardVec, the basis of the last updateBasis()
ForwardSpeedMps(s) == Dot(s.velocity, ForwardVec(s.basisYaw))

\* the top speed update() clamps to: maxSpeed, times 1.5 under nitro
MaxSpeedOf(p, nitroMultiplier) ==
  Mul(p.maxSpeed, IF nitroMultiplier > ONE THEN Fixed(3, 2) ELSE ONE)

\* update(): the nitro boost timer
\* (remaining - dt <= 0 exactly when remaining <= dt: rounding keeps the sign)
UpdateNitroKeepsMultiplier(s, dt) ==
  IF DLess(DZero, s.nitroBoostTimeRemaining)
  THEN IF DLeq(s.nitroBoostTimeRemaining, dt)
       THEN [s EXCEPT !.nitroBoostTimeRemaining = DZero]
       ELSE [s EXCEPT !.nitroBoostTimeRemaining = DSub(@, dt)]
  ELSE s

UpdateNitro(s, dt) ==
  IF DLess(DZero, s.nitroBoostTimeRemaining)
  THEN IF DLeq(s.nitroBoostTimeRemaining, dt)
       THEN [s EXCEPT !.nitroBoostTimeRemaining = DZero,
                      !.nitroBoostMultiplier = ONE]
       ELSE [s EXCEPT !.nitroBoostTimeRemaining = DSub(@, dt)]
  ELSE s

\* update(): the airborne test, position.y > groundHeight + 0.1
AirborneTestNoEpsilon(y, groundHeight) == y > groundHeight

AirborneTest(y, groundHeight) == y > groundHeight + Fixed(1, 10)

\* update(): steerSmoothed += (steerTarget - steerSmoothed) * min(1, rate * dt)
SmoothSteer(steerSmoothed, steerTarget, rate, dt) ==
  steerSmoothed + Mul(steerTarget - steerSmoothed, Min(ONE, Mul(rate, dt)))

\* update(): the Airborne branch once gravity and steering are applied
AirborneMove(s, dt, vel1, steer) ==
  [s EXCEPT !.isAirborne = TRUE,
            !.airTime = s.airTime + dt,
            !.velocity = vel1,
            !.steerSmoothed = steer,
            !.yawRad = s.yawRad + Mul(Mul(steer, Fixed(1, 2)), dt),
            !.basisYaw = s.yawRad + Mul(Mul(steer, Fixed(1, 2)), dt),
            !.position = Add(s.position, Scale(vel1, dt))]

\* update(): the Airborne branch
UpdateAirborneNoGravity(s, dt, input) ==
  AirborneMove(s, dt, s.velocity,
               SmoothSteer(s.steerSmoothed,
                           Mul(Max(-ONE, Min(ONE, input.steer)), Fixed(2, 10)),
                           2 * ONE, dt))

UpdateAirborne(s, dt, input) ==
  AirborneMove(s, dt,
               [s.velocity EXCEPT !.y = s.velocity.y - Mul(gravity, dt)],
               SmoothSteer(s.steerSmoothed,
                           Mul(Max(-ONE, Min(ONE, input.steer)), Fixed(2, 10)),
                           2 * ONE, dt))

\* update(): "Just landed" - zero the vertical velocity after a real flight
LandingVelocity(s, wasAirborne) ==
  IF wasAirborne /\ s.airTime > Fixed(1, 10)
  THEN [s.velocity EXCEPT !.y = 0]
  ELSE s.velocity

\* update(): isReversing
IsReversing(input, vF) == vF < 2 * ONE /\ input.brake > 0 /\ input.throttle = 0

\* longA of an engine that idles at a twentieth of full throttle
LongAccelIdle(p, input, surface, vF, nitroMultiplier) ==
  IF IsReversing(input, vF)
  THEN IF vF < -(15 * ONE)
       THEN Max(0, -Mul(input.brake, Mul(p.engineAccel, Fixed(4, 10))))
       ELSE -Mul(input.brake, Mul(p.engineAccel, Fixed(4, 10)))
  ELSE   Mul(Mul(Mul(Max(input.throttle, Fixed(1, 20)), p.engineAccel), nitroMultiplier),
             IF Abs(vF) < 3 * ONE /\ surface.grip < ONE THEN Fixed(13, 10) ELSE ONE)
       - (IF vF > 0 THEN Mul(input.brake, p.brakeDecel)
          ELSE -Mul(input.brake, p.brakeDecel))

\* longA of a reverse drive that is not cut off beyond 15 m/s backwards
LongAccelNoLimit(p, input, surface, vF, nitroMultiplier) ==
  IF IsReversing(input, vF)
  THEN -Mul(input.brake, Mul(p.engineAccel, Fixed(4, 10)))
  ELSE   Mul(Mul(Mul(input.throttle, p.engineAccel), nitroMultiplier),
             IF Abs(vF) < 3 * ONE /\ surface.grip < ONE THEN Fixed(13, 10) ELSE ONE)
       - (IF vF > 0 THEN Mul(input.brake, p.brakeDecel)
          ELSE -Mul(input.brake, p.brakeDecel))

\* update(): longA, the engine / brake / reverse acceleration
LongAccel(p, input, surface, vF, nitroMultiplier) ==
  IF IsReversing(input, vF)
  THEN LET reverseAccel == Mul(p.engineAccel, Fixed(4, 10))
           longA        == -Mul(input.brake, reverseAccel)
       IN  IF vF < -(15 * ONE) THEN Max(0, longA) ELSE longA
  ELSE LET lowSpeedBoost == IF Abs(vF) < 3 * ONE /\ surface.grip < ONE
                            THEN Fixed(13, 10) ELSE ONE
           engineA == Mul(Mul(Mul(input.throttle, p.engineAccel), nitroMultiplier),
                          lowSpeedBoost)
           brakeA  == Mul(input.brake, p.brakeDecel)
       IN  engineA - (IF vF > 0 THEN brakeA ELSE -brakeA)

\* update(): dragSigned, drag and rolling resistance against the motion
DragSigned(p, vF) ==
  LET speed         == Abs(vF)
      dragReduction == IF speed < 2 * ONE THEN Fixed(1, 2) ELSE ONE
      dragA == Mul(Mul(Mul(p.drag, speed), speed) + Mul(p.rolling, speed),
                   dragReduction)
  IN  IF speed > Fixed(1, 10) THEN dragA * Sign(vF) ELSE 0

\* update(): aLat, the slip-angle lateral acceleration
LatAccel(p, grip, vF, vR) ==
  Mul(Mul(Mul(-Atan2(vR, Abs(vF) + ONE), p.lateralGrip), grip),
      Min(ONE, Fixed(1, 4) + Div(Abs(vF), 14 * ONE)))

\* update(): if (len > max) tmpVel.scaleInPlace(max / len)
ClampSpeedOff(v, max) == v

ClampSpeed(v, max) ==
  LET len == Length(v)
  IN  IF len > max THEN Scale(v, Div(max, len)) ELSE v

\* update(): the ramp-launch condition
IsLaunch(ground, vF2) ==
  ground.onRamp /\ ground.atRampEdge /\ ground.rampAngle # 0 /\ vF2 > 8 * ONE

\* update(): the vertical velocity of a launch
LaunchVelocityNoFloor(ground, vF2) ==
  Mul(Mul(vF2, Sin(ground.rampAngle)), Fixed(55, 100))

LaunchVelocity(ground, vF2) ==
  Max(Mul(Mul(vF2, Sin(ground.rampAngle)), Fixed(55, 100)), 3 * ONE)

\* update(): position.y = Math.max(groundHeight, position.y)
HoldAboveGroundOff(groundHeight, y) == y

HoldAboveGround(groundHeight, y) == Max(groundHeight, y)

\* update(): the end of the Grounded branch: velocity, position, flags
GroundedMove(s0, dt, ground, groundHeight, steer, yaw, vF2, wasClamped, vel) ==
  [ sim |-> [s0 EXCEPT !.isAirborne = IsLaunch(ground, vF2),
                       !.airTime = 0,
                       !.steerSmoothed = steer,
                       !.yawRad = yaw,
                       !.basisYaw = yaw,
                       !.velocity = vel,
                       !.position =
                          [x |-> s0.position.x + Mul(vel.x, dt),
                           y |-> HoldAboveGround(groundHeight,
                                                 s0.position.y + Mul(vel.y, dt)),
                           z |-> s0.position.z + Mul(vel.z, dt)]],
    launched |-> IsLaunch(ground, vF2),
    vF2      |-> vF2,
    clamped  |-> wasClamped ]

\* update(): the speed limit, then the ramp jump or the hold on the surface
GroundedLimit(s0, p, dt, ground, groundHeight, steer, yaw, vF2, tmpVel) ==
  GroundedMove(s0, dt, ground, groundHeight, steer, yaw, vF2,
               Length(tmpVel) > MaxSpeedOf(p, s0.nitroBoostMultiplier),
               [ClampSpeed(tmpVel, MaxSpeedOf(p, s0.nitroBoostMultiplier))
                  EXCEPT !.y = IF IsLaunch(ground, vF2)
                               THEN LaunchVelocity(ground, vF2) ELSE 0])

\* update(): tmpVel = forward * vF2 + right * vR2, in the turned basis
GroundedRecombine(s0, p, dt, ground, groundHeight, steer, yaw, vF2, vR2) ==
  GroundedLimit(s0, p, dt, ground, groundHeight, steer, yaw, vF2,
                Add(Scale(ForwardVec(yaw), vF2), Scale(RightVec(yaw), vR2)))

\* update(): yawRate
YawRate(p, steer, grip, vF) ==
  Mul(Mul(Div(vF, Max(Fixed(1, 1000), p.wheelbase)),
          Tan(Mul(steer, p.maxSteerRad))), grip)

\* update(): yaw, vF2 = vF + aLong * dt, vR2 = vR + aLat * dt
GroundedAccel(s0, p, dt, input, surface, ground, groundHeight, steer, grip, vF, vR) ==
  GroundedRecombine(s0, p, dt, ground, groundHeight, steer,
    s0.yawRad + Mul(YawRate(p, steer, grip, vF), dt),
    vF + Mul(LongAccel(p, input, surface, vF, s0.nitroBoostMultiplier)
             - Mul(DragSigned(p, vF), surface.dragScale), dt),
    vR + Mul(LatAccel(p, grip, vF, vR), dt))

\* update(): the Grounded branch; result: the new fields and the locals
UpdateGrounded(s0, p, dt, input, surface, ground, wasAirborne, groundHeight) ==
  GroundedAccel(s0, p, dt, input, surface, ground, groundHeight,
    SmoothSteer(s0.steerSmoothed, Max(-ONE, Min(ONE, input.steer)), 10 * ONE, dt),
    Mul(surface.grip, ONE - Mul(input.handbrake, ONE - p.handbrakeGripScale)),
    Dot(LandingVelocity(s0, wasAirborne), ForwardVec(s0.yawRad)),
    Dot(LandingVelocity(s0, wasAirborne), RightVec(s0.yawRad)))

\* the arguments and the state update() starts from
UpdateInfo(s, input, ground) ==
  [ branch |-> "grounded", wasAirborne |-> s.isAirborne,
    groundHeight |-> ground.height + carHeight, preY |-> s.position.y,
    preVelY |-> s.velocity.y, ground |-> ground, input |-> input,
    launched |-> FALSE, vF2 |-> 0, clamped |-> FALSE ]

GroundedResult(info, g) ==
  [ sim  |-> g.sim,
    info |-> [info EXCEPT !.launched = g.launched, !.vF2 = g.vF2,
                          !.clamped = g.clamped] ]

\* update(dt, input, surface, ground); result: the new fields and the locals
Update(s, p, dt, input, surface, ground) ==
  IF AirborneTest(s.position.y, ground.height + carHeight)
  THEN [ sim  |-> UpdateAirborne(UpdateNitro(s, dt.dbl), dt.fx, input),
         info |-> [UpdateInfo(s, input, ground) EXCEPT !.branch = "airborne"] ]
  ELSE GroundedResult(UpdateInfo(s, input, ground),
                      UpdateGrounded(UpdateNitro(s, dt.dbl), p, dt.fx, input,
                                     surface, ground, s.isAirborne,
                                     ground.height + carHeight))

\* no update() call yet
NoUpdate ==
  [ branch |-> "none", wasAirborne |-> FALSE, groundHeight |-> carHeight,
    preY |-> carHeight, preVelY |-> 0,
    ground |-> [height |-> 0, onRamp |-> FALSE, atRampEdge |-> FALSE, rampAngle |-> 0],
    input |-> [throttle |-> 0, brake |-> 0, handbrake |-> 0, steer |-> 0],
    launched |-> FALSE, vF2 |-> 0, clamped |-> FALSE ]

\* ------------------------------------------------------------------------
\* CarSim driven through its public interface: construction, direct writes
\* to the public fields, activateNitroBoost and update
\* ------------------------------------------------------------------------
MaxCarTicks == 2

MaxNitroCalls == 1

\* a second tuning profile: the Game.ts tuning with a top speed the engine
\* can reach (terminal speed of the Game.ts tuning is about 27 m/s)
ParamSets == {GameParams, [GameParams EXCEPT !.maxSpeed = 20 * ONE]}

\* surfaceAt -> surface, as tickSim builds it
OnTrackSurface == [grip |-> ONE, dragScale |-> ONE]

OffTrackSurface(p) == [grip |-> p.offroadGripScale, dragScale |-> p.offroadDragScale]

\* slope angle of the ramps of the scene: atan2(ramp.height, ramp.length)
SceneRampAngle == Atan2(Fixed(15, 10), 14 * ONE)

\* ground infos tickSim can hand to update(): atRampEdge comes with onRamp
\* and a positive rampAngle (RampSystem.getHeightAt), a bridge deck is
\* onRamp without an edge
FlatGround == [height |-> 0, onRamp |-> FALSE, atRampEdge |-> FALSE, rampAngle |-> 0]

RampGround(t100, edge, angle) ==
  [height |-> Mul(Fixed(t100, 100), Fixed(15, 10)), onRamp |-> TRUE,
   atRampEdge |-> edge, rampAngle |-> angle]

BridgeGround == [height |-> 3 * ONE, onRamp |-> TRUE, atRampEdge |-> FALSE, rampAngle |-> 0]

CarPlaces(p) ==
  { [surface |-> OnTrackSurface,     ground |-> FlatGround],
    [surface |-> OffTrackSurface(p), ground |-> FlatGround],
    [surface |-> OnTrackSurface,     ground |-> RampGround(90, TRUE, SceneRampAngle)],
    [surface |-> OnTrackSurface,     ground |-> RampGround(100, TRUE, Fixed(3, 10))],
    [surface |-> OnTrackSurface,     ground |-> BridgeGround] }

CarInputs ==
  { [throttle |-> 0,   brake |-> 0,   handbrake |-> 0,   steer |-> 0],
    [throttle |-> ONE, brake |-> 0,   handbrake |-> 0,   steer |-> Fixed(7, 10)],
    [throttle |-> 0,   brake |-> ONE, handbrake |-> ONE, steer |-> -ONE] }

\* states a run of updates reaches, written to the public fields:
\* at speed on the straight, and in flight shortly before touching down
CarStarts ==
  { [NewCarSim EXCEPT !.velocity = Vec(0, 0, 20 * ONE)],
    [NewCarSim EXCEPT !.velocity = Vec(0, -(3 * ONE), 15 * ONE),
                      !.position = Vec(0, carHeight + Fixed(11, 100), 0),
                      !.isAirborne = TRUE,
                      !.airTime = Fixed(3, 10)] }

\* 0.0125 s (0x1999999999999a * 2^-59): a boost the second tick ends
NitroDurations == {DoubleOf(6710886, 429496730)}

NoNitroCall == [dur |-> DZero, mult |-> ONE, ticks |-> 0, calls |-> 0]

NoCourse == [input |-> NoUpdate.input, landing |-> 0]

NoJump == [phase |-> "none", launchVy |-> 0, flightTicks |-> 0]

NoQuery == [made |-> FALSE]

\* bestLapSeconds: null, or one number
Null == <<>>

NoFrame == [delta |-> DZero, accBefore |-> DZero, ticks |-> 0, frames |-> 0]

NoInput == [throttle |-> 0, brake |-> 0, handbrake |-> 0, steer |-> 0,
            resetPressed |-> FALSE]

NoTick == [s |-> 0, lastS |-> 0, forwardSpeed |-> 0, lapSeconds |-> 0,
           laps |-> 0, best |-> Null, lapStart |-> 0,
           lapsAfter |-> 0, bestAfter |-> Null, lapStartAfter |-> 0,
           lastSAfter |-> 0, counted |-> FALSE, reset |-> FALSE, ran |-> FALSE,
           dt |-> [fx |-> 0, dbl |-> DZero], sinceHit |-> -1, hitGap |-> 0,
           allReported |-> FALSE, reportedBefore |-> FALSE]

\* Game.ts as constructed: new DamageSystem(), collisionCooldown = 0,
\* speedPadCooldown = 0
NewWorld == [damage |-> 0, collisionCooldown |-> DZero, speedPadCooldown |-> DZero]

\* FixedTimestep as constructed: accumulator = 0
InitLoop ==
  /\ accumulator = DZero
  /\ pc = "idle"
  /\ frame = NoFrame

\* Game.ts as constructed: the lap state, nothing pressed
InitLapState ==
  /\ clock = 0
  /\ lapStartMs = 0
  /\ lastS = 0
  /\ laps = 0
  /\ bestLapSeconds = Null
  /\ lapTimeSeconds = 0
  /\ lapLog = {}
  /\ tickLog = NoTick
  /\ world = NewWorld

\* everything but the CarSim object and its history
NotCar == <<jumpVars, loopVars, gameVars>>

InitNotCar ==
  /\ course = NoCourse
  /\ query = NoQuery
  /\ jump = NoJump
  /\ InitLoop
  /\ InitLapState
  /\ gameInput = NoInput

InitCar ==
  /\ sim = NewCarSim
  /\ params \in ParamSets
  /\ upd = NoUpdate
  /\ nitroLog = NoNitroCall
  /\ arranged = FALSE
  /\ carTicks = 0
  /\ InitNotCar

CarArrange(st) ==
  /\ carTicks = 0
  /\ ~arranged
  /\ nitroLog.calls = 0
  /\ sim' = st
  /\ arranged' = TRUE
  /\ UNCHANGED <<params, upd, nitroLog, carTicks>>
  /\ UNCHANGED NotCar

CarActivateNitro(duration, multiplier) ==
  /\ nitroLog.calls < MaxNitroCalls
  /\ sim' = ActivateNitroBoost(sim, duration, multiplier)
  /\ nitroLog' = [dur |-> duration, mult |-> multiplier, ticks |-> 0,
                  calls |-> nitroLog.calls + 1]
  /\ UNCHANGED <<params, upd, arranged, carTicks>>
  /\ UNCHANGED NotCar

\* the car takes the fields update() computed; the locals are recorded
SetCar(r) ==
  /\ sim' = r.sim
  /\ upd' = r.info

CarUpdate(input, place) ==
  /\ carTicks < MaxCarTicks
  /\ SetCar(Update(sim, params, StepDt, input, place.surface, place.ground))
  /\ carTicks' = carTicks + 1
  /\ nitroLog' = [nitroLog EXCEPT !.ticks = @ + 1]
  /\ UNCHANGED <<params, arranged>>
  /\ UNCHANGED NotCar

NextCar ==
  \/ \E st \in CarStarts : CarArrange(st)
  \/ \E d \in NitroDurations : CarActivateNitro(d, 3 * ONE)
  \/ \E i \in CarInputs, pl \in CarPlaces(params) : CarUpdate(i, pl)

SpecCar == InitCar /\ [][NextCar]_vars

\* ------------------------------------------------------------------------
\* Claims about CarSim.update (checked under SpecCar)
\* ------------------------------------------------------------------------
Updated == upd.branch # "none"

\* sqrt(vx^2 + vz^2)
HorizontalSpeed(v) == Length([v EXCEPT !.y = 0])

\* C3 as stated: after every update tick - Grounded, Airborne and launch
\* alike - |velocity| <= maxSpeed * (1.5 if nitroMultiplier > 1 else 1).
C3_SpeedBoundEveryTick ==
  Updated => SpeedMps(sim) <= MaxSpeedOf(params, sim.nitroBoostMultiplier)

\* C3 amended: after every update tick that runs the Grounded branch the
\* horizontal speed is at most maxSpeed * (1.5 if nitroMultiplier > 1 else 1),
\* and if the tick does not launch so is |velocity|.
C3_SpeedBoundGrounded ==
  upd.branch = "grounded" =>
    /\ HorizontalSpeed(sim.velocity) <= MaxSpeedOf(params, sim.nitroBoostMultiplier)
    /\ ~upd.launched =>
         SpeedMps(sim) <= MaxSpeedOf(params, sim.nitroBoostMultiplier)

\* C3 witness: a Grounded tick without launch in which the clamp cut the speed
C3_Witness ==
  /\ upd.branch = "grounded"
  /\ ~upd.launched
  /\ upd.clamped
  /\ SpeedMps(sim) > 0

\* C4: after every tick that leaves the vehicle not airborne,
\* position.y >= the ground height given to that tick + the car-centre offset.
C4_OnOrAboveGround ==
  (Updated /\ ~sim.isAirborne) => sim.position.y >= upd.groundHeight

\* C4 witness: the ground rose above the car and the tick lifted the car onto it
C4_Witness ==
  /\ Updated
  /\ ~sim.isAirborne
  /\ upd.preY < upd.groundHeight
  /\ sim.position.y = upd.groundHeight

\* C5 as stated: Grounded -> Airborne when position.y > groundHeight + 0.1,
\* Airborne -> Grounded when position.y <= groundHeight, with the vertical
\* velocity zeroed on that landing.
C5_TransitionsAsStated ==
  Updated =>
    /\ (~upd.wasAirborne /\ upd.preY > upd.groundHeight + Fixed(1, 10))
         => sim.isAirborne
    /\ (upd.wasAirborne /\ upd.preY <= upd.groundHeight)
         => (~sim.isAirborne /\ sim.velocity.y = 0)

\* C5 amended: a freshly constructed vehicle is Grounded; a tick entered with
\* position.y > groundHeight + 0.1 ends Airborne; a tick entered with
\* position.y <= groundHeight + 0.1 ends Grounded with vertical velocity zero
\* unless it launches from a ramp edge, and then it ends Airborne.
C5_Transitions ==
  /\ (~Updated /\ ~arranged) => ~sim.isAirborne
  /\ Updated =>
       /\ upd.preY > upd.groundHeight + Fixed(1, 10)
            => (sim.isAirborne /\ upd.branch = "airborne")
       /\ (upd.preY <= upd.groundHeight + Fixed(1, 10) /\ ~upd.launched)
            => (~sim.isAirborne /\ sim.velocity.y = 0)
       /\ upd.launched => sim.isAirborne

\* C5 witness: a vehicle in flight came within 0.1 of the ground and landed
C5_Witness ==
  /\ Updated
  /\ upd.wasAirborne
  /\ upd.preVelY < 0
  /\ upd.preY > upd.groundHeight
  /\ ~sim.isAirborne
  /\ sim.velocity.y = 0

\* C6: in a Grounded tick at the launch edge with forward speed (after this
\* tick's acceleration) above 8 the vertical velocity becomes
\* max(vF * sin(rampAngle) * 0.55, 3) and the vehicle ends Airborne; in every
\* other Grounded tick the vertical velocity becomes zero.
C6_RampLaunch ==
  upd.branch = "grounded" =>
    IF upd.ground.atRampEdge /\ upd.vF2 > 8 * ONE
    THEN /\ sim.velocity.y =
              Max(Mul(Mul(upd.vF2, Sin(upd.ground.rampAngle)), Fixed(55, 100)), 3 * ONE)
         /\ sim.isAirborne
    ELSE sim.velocity.y = 0

\* C6 witness: a launch faster than the 3 m/s floor
C6_Witness ==
  /\ upd.branch = "grounded"
  /\ upd.launched
  /\ sim.isAirborne
  /\ sim.velocity.y > 3 * ONE

\* ------------------------------------------------------------------------
\* The airborne round trip: a vehicle at the launch edge of a ramp at
\* forward speed 15 with rampAngle 0.3, then the lower ground behind the ramp
\* ------------------------------------------------------------------------
MaxJumpTicks == 70

LaunchGround == RampGround(100, TRUE, Fixed(3, 10))

LandingGround(h) == [FlatGround EXCEPT !.height = h]

Courses ==
  { [input |-> i, landing |-> h] :
      i \in { [throttle |-> 0,   brake |-> 0, handbrake |-> 0, steer |-> 0],
              [throttle |-> ONE, brake |-> 0, handbrake |-> 0, steer |-> 0] },
      h \in { 0, Fixed(6, 10), Fixed(12, 10) } }

InitJump ==
  /\ sim = NewCarSim
  /\ params = GameParams
  /\ upd = NoUpdate
  /\ nitroLog = NoNitroCall
  /\ arranged = FALSE
  /\ carTicks = 0
  /\ course \in Courses
  /\ query = NoQuery
  /\ jump = [phase |-> "setup", launchVy |-> 0, flightTicks |-> 0]
  /\ InitLoop
  /\ InitLapState
  /\ gameInput = NoInput

\* put the vehicle on the launch edge at forward speed 15
JumpArrange ==
  /\ jump.phase = "setup"
  /\ sim' = [sim EXCEPT !.velocity = Vec(0, 0, 15 * ONE),
                        !.position = Vec(0, LaunchGround.height + carHeight, 0)]
  /\ arranged' = TRUE
  /\ jump' = [jump EXCEPT !.phase = "approach"]
  /\ UNCHANGED <<params, upd, nitroLog, carTicks, course, query>>
  /\ UNCHANGED <<loopVars, gameVars>>

\* one update(): on the launch edge first, over the landing ground afterwards
JumpTick ==
  /\ jump.phase \in {"approach", "flight", "landed"}
  /\ carTicks < MaxJumpTicks
  /\ SetCar(Update(sim, params, StepDt, course.input, OnTrackSurface,
                    IF jump.phase = "approach" THEN LaunchGround
                    ELSE LandingGround(course.landing)))
  /\ jump' = IF jump.phase = "approach"
             THEN [jump EXCEPT !.phase = "flight",
                               !.launchVy = sim'.velocity.y]
             ELSE IF jump.phase = "flight" /\ upd'.branch = "airborne"
             THEN [jump EXCEPT !.flightTicks = @ + 1]
             ELSE [jump EXCEPT !.phase = "landed"]
  /\ carTicks' = carTicks + 1
  /\ UNCHANGED <<params, nitroLog, arranged, course, query>>
  /\ UNCHANGED <<loopVars, gameVars>>

NextJump == JumpArrange \/ JumpTick

SpecJump == InitJump /\ [][NextJump]_vars

\* C7 as stated (its first part): the launch at forward speed 15 with
\* rampAngle 0.3 gives an initial upward velocity > 3.
C7_LaunchAboveThree ==
  jump.phase \in {"flight", "landed"} => jump.launchVy > 3 * ONE

\* C7 amended: the launch at forward speed 15 with rampAngle 0.3 gives an
\* upward velocity of exactly 3 (the floor; 15 * sin(0.3) * 0.55 is below it)
\* and the vehicle is Airborne; over the lower ground behind the ramp every
\* tick entered more than 0.1 above the ground keeps it Airborne and takes
\* gravity * dt off the vertical velocity; the tick entered within 0.1 of the
\* ground leaves it Grounded with vertical velocity exactly zero; the flight
\* ends within 60 ticks and the vehicle stays Grounded afterwards.
C7_RoundTrip ==
  [][ /\ (jump.phase = "approach" /\ carTicks' = carTicks + 1) =>
            /\ sim'.velocity.y = 3 * ONE
            /\ upd'.vF2 > 15 * ONE - ONE
            /\ upd'.vF2 < 15 * ONE + ONE
            /\ sim'.isAirborne
      /\ (jump.phase = "flight" /\ carTicks' = carTicks + 1) =>
            LET groundHeight == course.landing + carHeight
            IN  IF sim.position.y > groundHeight + Fixed(1, 10)
                THEN /\ sim'.isAirborne
                     /\ sim'.velocity.y = sim.velocity.y - Mul(gravity, DT)
                     /\ sim'.velocity.y < sim.velocity.y
                ELSE /\ ~sim'.isAirborne
                     /\ sim'.velocity.y = 0
                     /\ sim'.position.y >= groundHeight
      /\ (jump.phase = "landed" /\ carTicks' = carTicks + 1) =>
            /\ ~sim'.isAirborne
            /\ sim'.velocity.y = 0
      /\ jump'.flightTicks <= 60 ]_vars

\* C7 witness: the vehicle flew for more than 0.1 s and is back on the ground
C7_Witness ==
  /\ jump.phase = "landed"
  /\ jump.flightTicks > 12
  /\ upd.wasAirborne
  /\ ~sim.isAirborne
  /\ sim.velocity.y = 0
  /\ sim.position.y >= course.landing + carHeight
  /\ sim.position.y <= course.landing + carHeight + Fixed(1, 10)

\* ------------------------------------------------------------------------
\* The nitro timer: one activateNitroBoost on a fresh vehicle, then ticks
\* ------------------------------------------------------------------------
MaxNitroTicks == 14

\* 1/120, 0.0125, 0.025, 0.075 and 0.1 s as doubles
NitroRunDurations ==
  { StepSizeSeconds,
    DoubleOf(6710886, 429496730),
    DoubleOf(13421772, 858993460),
    DoubleOf(40265318, 429496728),
    DoubleOf(53687091, 214748368) }

NitroRunInputs ==
  { [throttle |-> 0,   brake |-> 0, handbrake |-> 0, steer |-> 0],
    [throttle |-> ONE, brake |-> 0, handbrake |-> 0, steer |-> 0] }

InitNitro ==
  /\ sim = NewCarSim
  /\ params = GameParams
  /\ upd = NoUpdate
  /\ nitroLog = NoNitroCall
  /\ arranged = FALSE
  /\ carTicks = 0
  /\ course \in { [input |-> i, landing |-> 0] : i \in NitroRunInputs }
  /\ query = NoQuery
  /\ jump = NoJump
  /\ InitLoop
  /\ InitLapState
  /\ gameInput = NoInput

NitroActivate(duration, multiplier) ==
  /\ nitroLog.calls = 0
  /\ sim' = ActivateNitroBoost(sim, duration, multiplier)
  /\ nitroLog' = [dur |-> duration, mult |-> multiplier, ticks |-> 0, calls |-> 1]
  /\ UNCHANGED <<params, upd, arranged, carTicks, course, jump, query>>
  /\ UNCHANGED <<loopVars, gameVars>>

NitroTick ==
  /\ nitroLog.calls = 1
  /\ carTicks < MaxNitroTicks
  /\ SetCar(Update(sim, params, StepDt, course.input, OnTrackSurface, FlatGround))
  /\ nitroLog' = [nitroLog EXCEPT !.ticks = @ + 1]
  /\ carTicks' = carTicks + 1
  /\ UNCHANGED <<params, arranged, course, jump, query>>
  /\ UNCHANGED <<loopVars, gameVars>>

NextNitro ==
  \/ \E d \in NitroRunDurations, m \in {Fixed(3, 2), 3 * ONE} : NitroActivate(d, m)
  \/ NitroTick

SpecNitro == InitNitro /\ [][NextNitro]_vars

\* ceil(d / dt) for d > 0, in exact arithmetic
RECURSIVE CeilTicks(_, _)
CeilTicks(d, dt) ==
  IF DLeq(d, dt) THEN 1 ELSE 1 + CeilTicks(DExactSub(d, dt), dt)

\* d - dt - ... - dt (k times), each difference rounded as the doubles are
RECURSIVE AfterTicks(_, _, _)
AfterTicks(d, dt, k) ==
  IF k = 0 THEN d ELSE DSub(AfterTicks(d, dt, k - 1), dt)

\* C8 as stated: activateNitroBoost(d, m) sets multiplier m and remaining
\* time d, and a boost of duration d > 0 is active for exactly ceil(d/dt)
\* ticks: still active after fewer ticks, neutral (0, 1) from that tick on.
C8_ActiveCeilTicks ==
  (nitroLog.calls > 0 /\ DLess(DZero, nitroLog.dur)) =>
    IF nitroLog.ticks < CeilTicks(nitroLog.dur, StepSizeSeconds)
    THEN /\ IsNitroActive(sim)
         /\ sim.nitroBoostMultiplier = nitroLog.mult
    ELSE /\ sim.nitroBoostTimeRemaining = DZero
         /\ sim.nitroBoostMultiplier = ONE

\* C8 amended: activateNitroBoost(d, m) sets multiplier m and remaining time
\* d; every later tick takes dt off the remaining time (a double
\* subtraction), and the tick in which it reaches zero or below resets both
\* (remaining 0, multiplier 1); a boost of duration d > 0 is active until the
\* first tick that brings the repeatedly rounded remainder to zero or below,
\* for durations up to 0.1 s ceil(d/dt) ticks give or take one tick.
C8_NitroTimer ==
  (nitroLog.calls > 0 /\ DLess(DZero, nitroLog.dur)) =>
    LET n == CeilTicks(nitroLog.dur, StepSizeSeconds)
    IN  IF IsNitroActive(sim)
        THEN /\ sim.nitroBoostMultiplier = nitroLog.mult
             /\ sim.nitroBoostTimeRemaining =
                  AfterTicks(nitroLog.dur, StepSizeSeconds, nitroLog.ticks)
             /\ nitroLog.ticks <= n
        ELSE /\ sim.nitroBoostTimeRemaining = DZero
             /\ sim.nitroBoostMultiplier = ONE
             /\ nitroLog.ticks >= n - 1
             /\ nitroLog.ticks > 0

\* C8 witness: a boost of 0.075 s (nine steps) that the tenth tick ended
C8_Witness ==
  /\ nitroLog.calls > 0
  /\ nitroLog.dur = DoubleOf(40265318, 429496728)
  /\ nitroLog.ticks = 10
  /\ DLess(DZero, AfterTicks(nitroLog.dur, StepSizeSeconds, 9))
  /\ sim.nitroBoostTimeRemaining = DZero
  /\ sim.nitroBoostMultiplier = ONE
  /\ ~IsNitroActive(sim)

\* ------------------------------------------------------------------------
\* Game.ts: the track, the start pose, tickSim
\* ------------------------------------------------------------------------
\* Track.createDefault: buildRoundedRectPath(95, 70, 22, 18)
halfX == 95

halfZ == 70

radius == 22

cornerSteps == 18

\* one chord of a corner arc: 2 r sin((pi/2) / cornerSteps / 2)
ArcChord == Mul(2 * radius * ONE, Sin(PI \div (4 * cornerSteps)))

\* Track.totalLength: the four straights and the four arcs of the centerline
TotalLength ==
    2 * (2 * (halfX - radius) * ONE)
  + 2 * (2 * (halfZ - radius) * ONE)
  + 4 * cornerSteps * ArcChord

\* centerline[0] and centerline[1]
StartPos == Vec((halfX - radius) * ONE, 0, -(halfZ * ONE))

NextPos == Vec(-((halfX - radius) * ONE), 0, -(halfZ * ONE))

StartYaw == Atan2(NextPos.x - StartPos.x, NextPos.z - StartPos.z)

steeringSensitivity == Fixed(7, 10)

\* the vehicle as Game.ts places it after construction
StartSim ==
  [NewCarSim EXCEPT !.position = Vec(StartPos.x, Fixed(55, 100), StartPos.z),
                    !.yawRad = StartYaw]

\* CarSim.reset() followed by the start pose
ResetSimKeepsNitro(s) ==
  [s EXCEPT !.position = Vec(StartPos.x, Fixed(55, 100), StartPos.z),
            !.velocity = Vec(0, 0, 0),
            !.yawRad = StartYaw,
            !.basisYaw = 0,
            !.isAirborne = FALSE,
            !.airTime = 0,
            !.steerSmoothed = 0]

ResetSim(s) ==
  [s EXCEPT !.position = Vec(StartPos.x, Fixed(55, 100), StartPos.z),
            !.velocity = Vec(0, 0, 0),
            !.yawRad = StartYaw,
            !.basisYaw = 0,
            !.isAirborne = FALSE,
            !.airTime = 0,
            !.steerSmoothed = 0,
            !.nitroBoostMultiplier = ONE,
            !.nitroBoostTimeRemaining = DZero]

\* one second of performance.now()
SecondMs == 10 * 1000

\* tickSim, "Lap": lastS > totalLength * 0.65 && s < totalLength * 0.35
WrappedForward(L, s) ==
  /\ L.lastS > Mul(TotalLength, Fixed(65, 100))
  /\ s < Mul(TotalLength, Fixed(35, 100))

\* tickSim, "Lap": the assignments of the step, counted = all three conditions
LapCountLatest(L, s, now, counted) ==
  [ lapStartMs     |-> IF counted THEN now ELSE L.lapStartMs,
    lastS          |-> s,
    laps           |-> IF counted THEN L.laps + 1 ELSE L.laps,
    bestLapSeconds |-> IF counted THEN <<now - L.lapStartMs>>
                       ELSE L.bestLapSeconds,
    counted        |-> counted ]

LapCount(L, s, now, counted) ==
  [ lapStartMs     |-> IF counted THEN now ELSE L.lapStartMs,
    lastS          |-> s,
    laps           |-> IF counted THEN L.laps + 1 ELSE L.laps,
    bestLapSeconds |-> IF counted /\ (L.bestLapSeconds = Null
                                       \/ now - L.lapStartMs < L.bestLapSeconds[1])
                       THEN <<now - L.lapStartMs>> ELSE L.bestLapSeconds,
    counted        |-> counted ]

\* tickSim, "Lap": the lap state after the lap-detection step.
\* L = [lapStartMs, lastS, laps, bestLapSeconds]
LapStepAnySpeed(L, s, forwardSpeedMps, now) ==
  LapCount(L, s, now,
           WrappedForward(L, s) /\ now - L.lapStartMs > 5 * SecondMs)

LapStepLatestAsBest(L, s, forwardSpeedMps, now) ==
  LapCountLatest(L, s, now,
                 /\ WrappedForward(L, s)
                 /\ forwardSpeedMps > 4 * ONE
                 /\ now - L.lapStartMs > 5 * SecondMs)

LapStep(L, s, forwardSpeedMps, now) ==
  LapCount(L, s, now,
           /\ WrappedForward(L, s)
           /\ forwardSpeedMps > 4 * ONE
           /\ now - L.lapStartMs > 5 * SecondMs)

\* Track.createDefault: halfWidth
halfWidth == 8

\* DamageSystem.addDamage: the level is capped at maxDamage = 100
AddDamage(level, amount) == Min(100 * ONE, level + amount)

\* cooldown -= dt for a cooldown > 0 (a difference below dt in size is exact;
\* it may come out negative, and stays so until the cooldown is set again)
CooldownTick(c, dt) == IF DLess(c, dt) THEN DExactSub(c, dt) ELSE DSub(c, dt)

\* 0.15 s (0x13333333333333 * 2^-56), 2.5 s and 3.0 s as doubles
CollisionCooldownSeconds == DoubleOf(80530636, 858993456)

SpeedPadBoostSeconds == DoubleOf(1342177280, 0)

SpeedPadCooldownSeconds == DoubleOf(1610612736, 0)

\* RampSystem.getHeightAt and BridgeSystem.getHeightAt away from every ramp
\* and bridge
NoRampInfo ==
  [height |-> 0, normal |-> Vec(0, ONE, 0), onRamp |-> FALSE,
   sideCollision |-> FALSE, atRampEdge |-> FALSE,
   rampDirection |-> Vec(0, 0, ONE), rampAngle |-> 0]

NoBridgeInfo ==
  [height |-> 0, onBridge |-> FALSE, sideCollision |-> FALSE,
   normal |-> Vec(0, 0, 0)]

\* tickSim, "Handle side collision": the damage of an impact at the car's speed
SideDamageAmount(s) ==
  Max(0, Mul(Mul(SpeedMps(s), Fixed(36, 10)) - 15 * ONE, Fixed(4, 10)))

\* the bounce off a side with the factors of the track barrier response
SideBounceAsBarrier(v, n, vn) ==
  IF vn < 0 THEN Scale(Add(v, Scale(n, Mul(-vn, Fixed(13, 10)))), Fixed(7, 10))
  ELSE v

\* tickSim, "Bounce off the side": for vn < 0, velocity += normal * (-vn * 1.5)
\* and velocity *= 0.6
SideBounce(v, n, vn) ==
  IF vn < 0 THEN Scale(Add(v, Scale(n, Mul(-vn, Fixed(15, 10)))), Fixed(6, 10))
  ELSE v

\* tickSim, "Handle side collision" with a ramp or a bridge barrier.
\* w = [sim, damage], info = what getHeightAt returned
SideCollision(w, info) ==
  IF info.sideCollision
  THEN [sim    |-> [w.sim EXCEPT !.velocity =
                      SideBounce(@, info.normal, Dot(@, info.normal))],
        damage |-> IF SideDamageAmount(w.sim) > 0
                   THEN AddDamage(w.damage, SideDamageAmount(w.sim))
                   ELSE w.damage]
  ELSE w

\* tickSim, "Speed pad detection": the cooldown runs down, or a pad under a
\* car faster than 5 m/s starts a 3x boost of 2.5 s and a cooldown of 3 s
SpeedPad(w, cooldown, dt, onSpeedPad) ==
  IF DLess(DZero, cooldown)
  THEN [sim |-> w.sim, damage |-> w.damage,
        speedPadCooldown |-> CooldownTick(cooldown, dt.dbl)]
  ELSE IF onSpeedPad /\ SpeedMps(w.sim) > 5 * ONE
  THEN [sim |-> ActivateNitroBoost(w.sim, SpeedPadBoostSeconds, 3 * ONE),
        damage |-> w.damage, speedPadCooldown |-> SpeedPadCooldownSeconds]
  ELSE [sim |-> w.sim, damage |-> w.damage, speedPadCooldown |-> cooldown]

\* tickSim, "Determine ground height": the ground info handed to sim.update
GroundInfoNoBridge(terrainHeight, rampInfo, bridgeInfo) ==
  [height     |-> Max(terrainHeight, rampInfo.height),
   onRamp     |-> rampInfo.onRamp \/ bridgeInfo.onBridge,
   atRampEdge |-> rampInfo.atRampEdge,
   rampAngle  |-> rampInfo.rampAngle]

GroundInfo(terrainHeight, rampInfo, bridgeInfo) ==
  [height     |-> Max(Max(terrainHeight, rampInfo.height), bridgeInfo.height),
   onRamp     |-> rampInfo.onRamp \/ bridgeInfo.onBridge,
   atRampEdge |-> rampInfo.atRampEdge,
   rampAngle  |-> rampInfo.rampAngle]

\* tickSim, "Soft constraint": beyond 220 m outside the track the car is
\* pushed back along the projection normal and loses half of its outward speed
WorldLimitPush(s, normal, pushStrength, vn) ==
  [s EXCEPT !.position = Add(@, Scale(normal, -pushStrength)),
            !.velocity = IF vn > 0 THEN Add(@, Scale(normal, Mul(-vn, Fixed(1, 2))))
                         ELSE @]

WorldLimit(s, distance, normal) ==
  IF distance - halfWidth * ONE > 220 * ONE
  THEN WorldLimitPush(s, normal,
                      Min(Fixed(1, 2),
                          Mul(distance - halfWidth * ONE - 220 * ONE, Fixed(5, 100))),
                      Dot(s.velocity, normal))
  ELSE s

\* Track.checkBarrierCollision(position, yaw, velocity): where the car touches
\* a barrier, the outward normal, the penetration depth along it and the
\* velocity magnitude at impact
CheckBarrierCollision(contact, s) ==
  [collided    |-> contact.collided,
   normal      |-> contact.normal,
   penetration |-> contact.penetration,
   impactSpeed |-> Length(s.velocity)]

\* tickSim, "Calculate impact damage": nothing below 10 km/h
BarrierDamageAmount(collision) ==
  Max(0, Mul(Mul(collision.impactSpeed, Fixed(36, 10)) - 10 * ONE, Fixed(1, 2)))

\* tickSim, "Bounce velocity off barrier": for bounceAmount < 0,
\* velocity += normal * (-bounceAmount * (1 + restitution)), velocity *= friction
BarrierBounceNoFriction(v, n, bounceAmount) ==
  IF bounceAmount < 0
  THEN Add(v, Scale(n, Mul(-bounceAmount, ONE + Fixed(3, 10))))
  ELSE v

BarrierBounce(v, n, bounceAmount) ==
  IF bounceAmount < 0
  THEN Scale(Add(v, Scale(n, Mul(-bounceAmount, ONE + Fixed(3, 10)))), Fixed(7, 10))
  ELSE v

\* tickSim, "Push car out of barrier" and the bounce
BarrierResponse(s, collision) ==
  [s EXCEPT !.position =
              Add(@, Scale(collision.normal, collision.penetration + Fixed(1, 10))),
            !.velocity =
              BarrierBounce(@, collision.normal, Dot(@, collision.normal))]

\* tickSim, "Barrier collision detection": the cooldown runs down, or the
\* barrier test is made and a collision answered
BarrierNoCooldown(s, damage, cooldown, dt, collision) ==
  IF collision.collided
  THEN [sim |-> BarrierResponse(s, collision),
        damage |-> IF BarrierDamageAmount(collision) > 0
                   THEN AddDamage(damage, BarrierDamageAmount(collision))
                   ELSE damage,
        collisionCooldown |-> cooldown, applied |-> TRUE]
  ELSE [sim |-> s, damage |-> damage, collisionCooldown |-> cooldown,
        applied |-> FALSE]

Barrier(s, damage, cooldown, dt, collision) ==
  IF DLess(DZero, cooldown)
  THEN [sim |-> s, damage |-> damage,
        collisionCooldown |-> CooldownTick(cooldown, dt.dbl), applied |-> FALSE]
  ELSE IF collision.collided
  THEN [sim |-> BarrierResponse(s, collision),
        damage |-> IF BarrierDamageAmount(collision) > 0
                   THEN AddDamage(damage, BarrierDamageAmount(collision))
                   ELSE damage,
        collisionCooldown |-> CollisionCooldownSeconds, applied |-> TRUE]
  ELSE [sim |-> s, damage |-> damage, collisionCooldown |-> cooldown,
        applied |-> FALSE]

\* tickSim, "Reset": what the tick leaves behind, given the steps' results.
\* w = the car, the damage and the speed pad cooldown before sim.update,
\* s1 = the car before and b = the car, damage and cooldown after the barrier
\* step, L1 = the lap step's result
TickReset(dt, place, w, info, s1, b, fwd, L1) ==
  /\ sim' = IF gameInput.resetPressed THEN ResetSim(b.sim) ELSE b.sim
  /\ upd' = info
  /\ world' = [damage |-> IF gameInput.resetPressed THEN 0 ELSE b.damage,
               collisionCooldown |-> b.collisionCooldown,
               speedPadCooldown |-> w.speedPadCooldown]
  /\ lapStartMs' = IF gameInput.resetPressed THEN clock ELSE L1.lapStartMs
  /\ lastS' = IF gameInput.resetPressed THEN 0 ELSE L1.lastS
  /\ laps' = IF gameInput.resetPressed THEN 0 ELSE L1.laps
  /\ bestLapSeconds' = IF gameInput.resetPressed THEN Null ELSE L1.bestLapSeconds
  /\ lapTimeSeconds' = clock - L1.lapStartMs
  /\ gameInput' = [gameInput EXCEPT !.resetPressed = FALSE]
  /\ lapLog' = IF gameInput.resetPressed THEN {}
               ELSE IF L1.counted THEN lapLog \cup {clock - lapStartMs}
               ELSE lapLog
  /\ tickLog' = [ s |-> place.s, lastS |-> lastS, forwardSpeed |-> fwd,
                  lapSeconds |-> clock - lapStartMs, laps |-> laps,
                  best |-> bestLapSeconds, lapStart |-> lapStartMs,
                  lapsAfter |-> L1.laps, bestAfter |-> L1.bestLapSeconds,
                  lapStartAfter |-> L1.lapStartMs, lastSAfter |-> L1.lastS,
                  counted |-> L1.counted, reset |-> gameInput.resetPressed,
                  ran |-> TRUE, dt |-> dt,
                  place |-> place, simBefore |-> sim, worldBefore |-> world,
                  beforeUpdate |-> w, beforeBarrier |-> s1, afterBarrier |-> b,
                  sinceHit |-> IF b.applied THEN 0
                               ELSE IF tickLog.sinceHit < 0 THEN -1
                               ELSE tickLog.sinceHit + 1,
                  hitGap |-> IF b.applied /\ tickLog.sinceHit >= 0
                             THEN tickLog.sinceHit + 1 ELSE 0,
                  allReported |-> IF b.applied THEN TRUE
                                  ELSE tickLog.allReported /\ place.barrier.collided,
                  reportedBefore |-> tickLog.allReported ]
  /\ carTicks' = carTicks + 1
  /\ UNCHANGED <<params, nitroLog, arranged, course, jump, query>>

\* tickSim, "Lap": detection on the vehicle the barrier step left behind
TickLap(dt, place, w, info, s1, b) ==
  TickReset(dt, place, w, info, s1, b, ForwardSpeedMps(b.sim),
            LapStep([lapStartMs |-> lapStartMs, lastS |-> lastS, laps |-> laps,
                     bestLapSeconds |-> bestLapSeconds],
                    place.s, ForwardSpeedMps(b.sim), clock))

\* tickSim, "Barrier collision detection", on the vehicle the world limit
\* left behind
TickBarrier(dt, place, w, info, s1) ==
  TickLap(dt, place, w, info, s1,
          Barrier(s1, w.damage, world.collisionCooldown, dt,
                  CheckBarrierCollision(place.barrier, s1)))

\* tickSim: sim.update with the merged ground, then the world limit
TickUpdate(dt, place, w, r) ==
  TickBarrier(dt, place, w, r.info, WorldLimit(r.sim, place.distance, place.normal))

\* tickSim: the steps before sim.update have run
TickGround(dt, place, w) ==
  TickUpdate(dt, place, w,
             Update(w.sim, params, dt,
                    [throttle  |-> gameInput.throttle,
                     brake     |-> gameInput.brake,
                     handbrake |-> gameInput.handbrake,
                     steer     |-> Mul(gameInput.steer, steeringSensitivity)],
                    IF place.onTrack THEN OnTrackSurface ELSE OffTrackSurface(params),
                    GroundInfo(place.terrain, place.ramp, place.bridge)))

\* tickSim without the side-collision handling before sim.update
TickSimNoSide(dt, place) ==
  TickGround(dt, place,
             SpeedPad([sim |-> sim, damage |-> world.damage],
                      world.speedPadCooldown, dt, place.onSpeedPad))

\* tickSim(dt).  place = what the world answers for the car's position: the
\* projection on the track (s, onTrack, distance, normal), the terrain
\* height, the ramp and bridge infos, whether a speed pad lies under the car,
\* and the barrier contact
TickSim(dt, place) ==
  TickGround(dt, place,
             SpeedPad(SideCollision(SideCollision([sim |-> sim, damage |-> world.damage],
                                                  place.ramp),
                                    place.bridge),
                      world.speedPadCooldown, dt, place.onSpeedPad))

\* GameAPI.reset(), the R key, the gamepad A button
RequestReset ==
  /\ pc = "idle"
  /\ ~gameInput.resetPressed
  /\ gameInput' = [gameInput EXCEPT !.resetPressed = TRUE]
  /\ UNCHANGED <<carVars, jumpVars, loopVars, clock, lapStartMs, lastS, laps,
                 bestLapSeconds, lapTimeSeconds, lapLog, tickLog, world>>

\* the controls the driver holds
HeldInputs ==
  { [NoInput EXCEPT !.throttle = ONE],
    [NoInput EXCEPT !.throttle = ONE, !.steer = ONE] }

\* the start straight: on the track, flat, a tenth of the way round
NoContact == [collided |-> FALSE, normal |-> Vec(0, 0, 0), penetration |-> 0]

\* a place on the flat track with nothing in reach, s along the centerline
OpenTrack(s) ==
  [s |-> s, onTrack |-> TRUE, distance |-> 0, normal |-> Vec(0, 0, ONE),
   terrain |-> 0, ramp |-> NoRampInfo, bridge |-> NoBridgeInfo,
   onSpeedPad |-> FALSE, barrier |-> NoContact]

StartStraight == OpenTrack(Mul(TotalLength, Fixed(1, 10)))

InitGame ==
  /\ sim = StartSim
  /\ params = GameParams
  /\ upd = NoUpdate
  /\ nitroLog = NoNitroCall
  /\ arranged = FALSE
  /\ carTicks = 0
  /\ course = NoCourse
  /\ query = NoQuery
  /\ jump = NoJump
  /\ InitLoop
  /\ InitLapState
  /\ gameInput \in HeldInputs

\* ------------------------------------------------------------------------
\* FixedTimestep (game/loop/FixedTimestep.ts) under Game.ts onFrame
\* ------------------------------------------------------------------------
MaxFrames == 3

\* the cap on one frame's delta: the double 0.1 (0xccccccccccccd0 * 2^-59)
MaxDeltaSeconds == DoubleOf(53687091, 214748368)

\* step(): accumulator += Math.min(deltaSeconds, 0.1)
AccumulateUnclamped(acc, deltaSeconds) == DAdd(acc, deltaSeconds)

Accumulate(acc, deltaSeconds) == DAdd(acc, DMin(deltaSeconds, MaxDeltaSeconds))

\* step(): the loop condition accumulator >= stepSizeSeconds
StepAgainStrict(acc, stepSizeSeconds) == DLess(stepSizeSeconds, acc)

StepAgain(acc, stepSizeSeconds) == DLeq(stepSizeSeconds, acc)

\* engine.getDeltaTime() / 1000 for frames of 0, 1000/120, 16.7, 33.3, 100
\* and 250 ms, with the same time in tenths of a millisecond
FrameDeltas ==
  { [seconds |-> DZero,                          tenthMs |-> 0],
    [seconds |-> StepSizeSeconds,                tenthMs |-> 83],
    [seconds |-> DoubleOf(8965744, 247390116),  tenthMs |-> 167],
    [seconds |-> DoubleOf(17877801, 396854976),  tenthMs |-> 333],
    [seconds |-> MaxDeltaSeconds,                tenthMs |-> 1000],
    [seconds |-> DoubleOf(134217728, 0),         tenthMs |-> 2500] }

\* onFrame: fixed.step(dt, ...) up to the loop
OnFrame(delta) ==
  /\ pc = "idle"
  /\ frame.frames < MaxFrames
  /\ accumulator' = Accumulate(accumulator, delta.seconds)
  /\ frame' = [delta |-> delta.seconds, accBefore |-> accumulator, ticks |-> 0,
               frames |-> frame.frames + 1]
  /\ clock' = clock + delta.tenthMs
  /\ pc' = "stepping"
  /\ UNCHANGED <<carVars, jumpVars, gameInput, lapStartMs, lastS, laps,
                 bestLapSeconds, lapTimeSeconds, lapLog, tickLog, world>>

\* one turn of the loop: tick(stepSizeSeconds); accumulator -= stepSizeSeconds
FrameTick ==
  /\ pc = "stepping"
  /\ StepAgain(accumulator, StepSizeSeconds)
  /\ TickSim(StepDt, StartStraight)
  /\ accumulator' = DSub(accumulator, StepSizeSeconds)
  /\ frame' = [frame EXCEPT !.ticks = @ + 1]
  /\ UNCHANGED <<pc, clock>>

\* the loop ends; step() and onFrame return
StepReturn ==
  /\ pc = "stepping"
  /\ ~StepAgain(accumulator, StepSizeSeconds)
  /\ pc' = "idle"
  /\ UNCHANGED <<carVars, jumpVars, accumulator, frame, gameVars>>

Next ==
  \/ \E delta \in FrameDeltas : OnFrame(delta)
  \/ FrameTick
  \/ StepReturn
  \/ RequestReset

Spec == InitGame /\ [][Next]_vars

\* min(delta, 0.1), the amount step() is to add for a frame
ClampedDelta(delta) == IF DLess(delta, MaxDeltaSeconds) THEN delta ELSE MaxDeltaSeconds

\* acc0 + m - k * stepSize without any rounding, in units of 2^-59
RECURSIVE ExactAfterTicks(_, _, _)
ExactAfterTicks(acc0, m, k) ==
  IF k = 0 THEN DNorm(acc0.hi + m.hi, acc0.lo + m.lo)
  ELSE DExactSub(ExactAfterTicks(acc0, m, k - 1), StepSizeSeconds)

\* a - b in units of 2^-59, for a and b less than 2^-29 apart
UnitsApart(a, b) == (a.hi - b.hi) * LIMB + (a.lo - b.lo)

\* C1: for non-negative frame deltas, a step call adds min(delta, 0.1) to the
\* accumulator, calls tick k times, each with dt = stepSize, and returns with
\* accumulator = previous + min(delta, 0.1) - k * stepSize (as the doubles
\* compute it, subtraction by subtraction, and within the rounding of those
\* k + 1 operations of the exact value) and 0 <= accumulator < stepSize.
C1_StepContract ==
  /\ tickLog.ran => tickLog.dt = StepDt
  /\ frame.frames > 0 =>
       accumulator = AfterTicks(DAdd(frame.accBefore, ClampedDelta(frame.delta)),
                                StepSizeSeconds, frame.ticks)
  /\ (frame.frames > 0 /\ pc = "idle") =>
       /\ DLeq(DZero, accumulator)
       /\ DLess(accumulator, StepSizeSeconds)
       /\ Abs(accumulator.hi
              - ExactAfterTicks(frame.accBefore, ClampedDelta(frame.delta),
                                frame.ticks).hi) <= 1
       /\ Abs(UnitsApart(accumulator,
                         ExactAfterTicks(frame.accBefore,
                                         ClampedDelta(frame.delta),
                                         frame.ticks))) <= 4 * (frame.ticks + 1)

\* C1 witness: a call that started from a remainder, had its delta clamped,
\* ran several ticks and has returned
C1_Witness ==
  /\ pc = "idle"
  /\ frame.frames >= 2
  /\ DLess(DZero, frame.accBefore)
  /\ DLess(MaxDeltaSeconds, frame.delta)
  /\ frame.ticks >= 12
  /\ DLess(accumulator, StepSizeSeconds)

\* C2 as stated: one step call invokes tick at most 12 times
C2_AtMostTwelveTicks == frame.ticks <= 12

\* C2 amended: one step call invokes tick at most 13 times however large the
\* frame delta is (fewer than 2 + 0.1/stepSize times), and every tick leaves
\* the accumulator strictly smaller, so the call terminates.
C2_BoundedCatchUp ==
  /\ [](frame.ticks <= 13)
  /\ [][frame'.ticks = frame.ticks + 1 => DLess(accumulator', accumulator)]_vars

\* C2 witness: a call that has returned after thirteen ticks
C2_Witness ==
  /\ pc = "idle"
  /\ frame.ticks = 13
  /\ DLeq(MaxDeltaSeconds, frame.delta)

\* ------------------------------------------------------------------------
\* Lap detection: tickSim at places round the track, with time passing
\* ------------------------------------------------------------------------
MaxLapTicks == 26

MaxLapClock == 5

\* the time between two looks at the clock: 2.6 s
LapElapse == 26 * (SecondMs \div 10)

\* where the projection finds the car: on the flat track, early in the lap, on
\* the two thresholds, and late in the lap
LapPlaces ==
  { OpenTrack(Mul(TotalLength, f)) :
      f \in {Fixed(10, 100), Fixed(35, 100), Fixed(65, 100), Fixed(90, 100)} }

\* a simulation tick with the car at one of the places
LapTick(place) ==
  /\ carTicks < MaxLapTicks
  /\ TickSim(StepDt, place)
  /\ UNCHANGED <<loopVars, clock>>

\* performance.now() moves on between ticks
Elapse ==
  /\ clock < MaxLapClock * LapElapse
  /\ clock' = clock + LapElapse
  /\ UNCHANGED <<carVars, jumpVars, loopVars, gameInput, lapStartMs, lastS, laps,
                 bestLapSeconds, lapTimeSeconds, lapLog, tickLog, world>>

\* the driver asks for a reset once a lap has been counted
LapReset ==
  /\ laps > 0
  /\ RequestReset

NextLap ==
  \/ \E place \in LapPlaces : LapTick(place)
  \/ Elapse
  \/ LapReset

\* Game.ts as constructed, the driver holding full throttle
InitLap ==
  /\ InitGame
  /\ gameInput = [NoInput EXCEPT !.throttle = ONE]

SpecLap == InitLap /\ [][NextLap]_vars

\* the four conditions of a counted lap, on what the last tick started from
LapConditions ==
  /\ tickLog.lastS > Mul(TotalLength, Fixed(65, 100))
  /\ tickLog.s < Mul(TotalLength, Fixed(35, 100))
  /\ tickLog.forwardSpeed > 4 * ONE
  /\ tickLog.lapSeconds > 5 * SecondMs

\* C9: the lap step of a tick raises the lap count, by exactly 1, if and only
\* if lastS > 0.65 * totalLength, s < 0.35 * totalLength, forwardSpeed > 4 and
\* the elapsed lap time is > 5 s (so never with forwardSpeed <= 4), and it
\* sets lastS to s whether or not a lap was counted; unless the same tick
\* carries out a reset request, that is the lap state the tick leaves.
C9_LapCounted ==
  tickLog.ran =>
    /\ tickLog.lapsAfter = (IF LapConditions THEN tickLog.laps + 1 ELSE tickLog.laps)
    /\ tickLog.forwardSpeed <= 4 * ONE => tickLog.lapsAfter = tickLog.laps
    /\ tickLog.lastSAfter = tickLog.s
    /\ ~tickLog.reset => (laps = tickLog.lapsAfter /\ lastS = tickLog.s)

\* C9 witness: the second lap has just been counted, and lastS follows s
C9_Witness ==
  /\ tickLog.ran
  /\ ~tickLog.reset
  /\ LapConditions
  /\ tickLog.laps = 1
  /\ laps = 2
  /\ lastS = tickLog.s

\* the least element of a non-empty set of numbers
SetMin(S) == CHOOSE m \in S : \A x \in S : m <= x

\* C10: a counted lap makes bestLapSeconds the minimum of its previous value
\* and the finished lap's time (the lap time when it was null) and restarts
\* the lap clock; the lap step of a tick that counts no lap leaves the lap
\* count, bestLapSeconds and the lap clock start unchanged; so bestLapSeconds
\* is always the minimum duration of the laps counted since the last reset
\* (null when there is none).
C10_BestLap ==
  /\ (tickLog.ran /\ tickLog.lapsAfter # tickLog.laps) =>
       /\ tickLog.bestAfter =
            (IF tickLog.best = Null THEN <<tickLog.lapSeconds>>
             ELSE <<Min(tickLog.best[1], tickLog.lapSeconds)>>)
       /\ tickLog.lapStartAfter = tickLog.lapStart + tickLog.lapSeconds
  /\ (tickLog.ran /\ tickLog.lapsAfter = tickLog.laps) =>
       /\ tickLog.bestAfter = tickLog.best
       /\ tickLog.lapStartAfter = tickLog.lapStart
  /\ (tickLog.ran /\ ~tickLog.reset) =>
       /\ bestLapSeconds = tickLog.bestAfter
       /\ lapStartMs = tickLog.lapStartAfter
       /\ laps = tickLog.lapsAfter
  /\ bestLapSeconds = (IF lapLog = {} THEN Null ELSE <<SetMin(lapLog)>>)
  /\ (laps = 0) = (lapLog = {})

\* C10 witness: a second, slower lap has been counted and the best time kept
C10_Witness ==
  /\ tickLog.ran
  /\ tickLog.lapsAfter = 2
  /\ laps = 2
  /\ tickLog.best # Null
  /\ tickLog.lapSeconds > tickLog.best[1]
  /\ bestLapSeconds = tickLog.best
  /\ lapStartMs = clock

\* ------------------------------------------------------------------------
\* tickSim and the reset: a run down the start straight to a speed pad or
\* the launch edge of a ramp, and into a barrier
\* ------------------------------------------------------------------------
MaxResetTicks == 36

\* the ticks the car needs from the start line to the first obstacle
StraightTicks == 32

\* the last stretch of the lap, just before the start line
LateInLap == OpenTrack(Mul(TotalLength, Fixed(9, 10)))

\* on a speed pad; on the launch edge of a ramp of the scene (t = 0.9)
OnSpeedPad == [StartStraight EXCEPT !.onSpeedPad = TRUE]

OnRampEdge ==
  [StartStraight EXCEPT
     !.ramp = [NoRampInfo EXCEPT !.height = Mul(Fixed(9, 10), Fixed(15, 10)),
                                 !.onRamp = TRUE, !.atRampEdge = TRUE,
                                 !.rampAngle = SceneRampAngle]]

\* contacts with a barrier: head-on to a car leaving the start line, at a
\* slant, and with the barrier behind the car
BarrierContacts ==
  { [collided |-> TRUE, normal |-> Vec(ONE, 0, 0), penetration |-> Fixed(1, 4)],
    [collided |-> TRUE, normal |-> Vec(Fixed(6, 10), 0, Fixed(8, 10)), penetration |-> 0],
    [collided |-> TRUE, normal |-> Vec(-ONE, 0, 0), penetration |-> Fixed(1, 4)] }

AtBarrier == {[StartStraight EXCEPT !.barrier = c] : c \in BarrierContacts}

\* what the world answers on the k-th tick of the run
ResetRunPlaces(k) ==
  IF k < StraightTicks - 1 THEN {StartStraight}
  ELSE IF k = StraightTicks - 1 THEN {LateInLap}
  ELSE IF k = StraightTicks THEN {StartStraight, OnSpeedPad}
  ELSE IF k = StraightTicks + 1 THEN {StartStraight, OnRampEdge}
  ELSE {StartStraight} \cup AtBarrier

ResetRunTick(place) ==
  /\ carTicks < MaxResetTicks
  /\ TickSim(StepDt, place)
  /\ UNCHANGED <<loopVars, clock>>

\* performance.now() moves on while the car is on the last stretch
ResetRunElapse ==
  /\ carTicks = StraightTicks - 1
  /\ clock = 0
  /\ clock' = clock + 2 * LapElapse
  /\ UNCHANGED <<carVars, jumpVars, loopVars, gameInput, lapStartMs, lastS, laps,
                 bestLapSeconds, lapTimeSeconds, lapLog, tickLog, world>>

\* the driver asks for a reset once the car is past the straight
ResetRunReset ==
  /\ carTicks > StraightTicks
  /\ RequestReset

NextReset ==
  \/ \E place \in ResetRunPlaces(carTicks) : ResetRunTick(place)
  \/ ResetRunElapse
  \/ ResetRunReset

SpecReset == InitLap /\ [][NextReset]_vars

\* C11: after a tick that applied a reset, the vehicle is at the track start
\* pose (centerline[0] at car height, yaw towards centerline[1]) with zero
\* velocity, grounded, airTime 0, smoothed steer 0 and nitro neutral, and
\* lapCount = 0, bestLapSeconds = null, lastS = 0 and damage = 0.
C11_ResetRestoresStart ==
  (tickLog.ran /\ tickLog.reset) =>
    /\ sim.position = Vec(StartPos.x, carHeight, StartPos.z)
    /\ sim.yawRad = Atan2(NextPos.x - StartPos.x, NextPos.z - StartPos.z)
    /\ Abs(Sin(sim.yawRad) + ONE) <= 2
    /\ Abs(Cos(sim.yawRad)) <= 2
    /\ sim.velocity = Vec(0, 0, 0)
    /\ ~sim.isAirborne
    /\ sim.airTime = 0
    /\ sim.steerSmoothed = 0
    /\ sim.nitroBoostMultiplier = ONE
    /\ sim.nitroBoostTimeRemaining = DZero
    /\ laps = 0
    /\ bestLapSeconds = Null
    /\ lastS = 0
    /\ world.damage = 0

\* C11 witness: a reset applied to a damaged car in flight under nitro boost,
\* with a lap counted
C11_Witness ==
  /\ tickLog.ran
  /\ tickLog.reset
  /\ tickLog.afterBarrier.damage > 0
  /\ tickLog.afterBarrier.sim.isAirborne
  /\ IsNitroActive(tickLog.afterBarrier.sim)
  /\ Length(tickLog.afterBarrier.sim.velocity) > 5 * ONE
  /\ tickLog.lapsAfter > 0
  /\ tickLog.bestAfter # Null
  /\ sim.velocity = Vec(0, 0, 0)
  /\ world.damage = 0
  /\ laps = 0

\* ------------------------------------------------------------------------
\* tickSim with barriers in reach from the start line on
\* ------------------------------------------------------------------------
MaxHitTicks == 22

HitTick(place) ==
  /\ carTicks < MaxHitTicks
  /\ TickSim(StepDt, place)
  /\ UNCHANGED <<loopVars, clock>>

NextHit == \E place \in {StartStraight} \cup AtBarrier : HitTick(place)

SpecHit == InitLap /\ [][NextHit]_vars

\* the velocity component along the barrier normal before and after the
\* barrier step of the last tick, and the speeds
HitNormalSpeedBefore ==
  Dot(tickLog.beforeBarrier.velocity, tickLog.place.barrier.normal)

HitNormalSpeedAfter ==
  Dot(tickLog.afterBarrier.sim.velocity, tickLog.place.barrier.normal)

\* C12: a barrier collision response pushes the position out along the normal
\* by penetration + 0.1; if the velocity was moving into the barrier
\* (velocity . normal < 0) its normal component comes out reversed and reduced,
\* 0.3 * 0.7 = 0.21 of what it was (up to the rounding of the products), and
\* the total speed strictly lower; if velocity . normal >= 0 the velocity is
\* left unchanged.
C12_BarrierResponse ==
  (tickLog.ran /\ tickLog.afterBarrier.applied) =>
    /\ tickLog.afterBarrier.sim.position =
         Add(tickLog.beforeBarrier.position,
             Scale(tickLog.place.barrier.normal,
                   tickLog.place.barrier.penetration + Fixed(1, 10)))
    /\ HitNormalSpeedBefore < 0 =>
         /\ HitNormalSpeedAfter > 0
         /\ HitNormalSpeedAfter < -HitNormalSpeedBefore
         /\ Abs(HitNormalSpeedAfter - Mul(-HitNormalSpeedBefore, Fixed(21, 100))) <= 4
         /\ Length(tickLog.afterBarrier.sim.velocity)
              < Length(tickLog.beforeBarrier.velocity)
    /\ HitNormalSpeedBefore >= 0 =>
         tickLog.afterBarrier.sim.velocity = tickLog.beforeBarrier.velocity

\* C12 witness: a response to a slanted impact at speed, the car pushed out
C12_Witness ==
  /\ tickLog.ran
  /\ tickLog.afterBarrier.applied
  /\ HitNormalSpeedBefore < -ONE
  /\ tickLog.place.barrier.normal.z # 0
  /\ HitNormalSpeedAfter > 0
  /\ sim.velocity = tickLog.afterBarrier.sim.velocity
  /\ sim.position # tickLog.beforeBarrier.position

\* C13: between two barrier collision responses at least 18 ticks (0.15 s of
\* simulated time) pass, and a tick that finds the cooldown running applies
\* no response, whatever the barrier test would report.
C13_CollisionCooldown ==
  /\ (tickLog.ran /\ tickLog.afterBarrier.applied /\ tickLog.hitGap > 0) =>
       tickLog.hitGap >= 18
  /\ (tickLog.ran /\ DLess(DZero, tickLog.worldBefore.collisionCooldown)) =>
       /\ ~tickLog.afterBarrier.applied
       /\ tickLog.afterBarrier.sim = tickLog.beforeBarrier
  /\ (tickLog.ran /\ tickLog.sinceHit > 0 /\ tickLog.sinceHit < 18) =>
       DLess(DZero, world.collisionCooldown)

\* C13 witness: the second response, with the barrier in contact on every
\* tick since the first
C13_Witness ==
  /\ tickLog.ran
  /\ tickLog.afterBarrier.applied
  /\ tickLog.hitGap > 0
  /\ tickLog.reportedBefore

\* ------------------------------------------------------------------------
\* IEEE-754 binary64 arithmetic (JavaScript numbers as the track code
\* computes them): round to nearest, ties to even. A natural number is a
\* sequence of limbs, least significant first, without leading zero limbs;
\* a double is sign * man * 2^exp with man of exactly 53 bits (or zero).
\* Subnormals, infinities and the sign of zero are outside the range the
\* track code reaches here.
\* ------------------------------------------------------------------------
\* 2^15: the product of two limbs stays in the 32-bit range
RADIX == 128 * 256

LimbBits == 16 - 1

RECURSIVE BTrim(_)
BTrim(a) ==
  IF a = <<>> \/ a[Len(a)] # 0 THEN a ELSE BTrim(SubSeq(a, 1, Len(a) - 1))

BLimb(a, i) == IF i <= Len(a) THEN a[i] ELSE 0

RECURSIVE BAddFrom(_, _, _, _)
BAddFrom(a, b, i, carry) ==
  IF i > Len(a) /\ i > Len(b) THEN (IF carry = 0 THEN <<>> ELSE <<carry>>)
  ELSE <<(BLimb(a, i) + BLimb(b, i) + carry) % RADIX>>
       \o BAddFrom(a, b, i + 1, (BLimb(a, i) + BLimb(b, i) + carry) \div RADIX)

BAdd(a, b) == BAddFrom(a, b, 1, 0)

\* a - b for a >= b
RECURSIVE BSubFrom(_, _, _, _)
BSubFrom(a, b, i, borrow) ==
  IF i > Len(a) THEN <<>>
  ELSE <<(a[i] - BLimb(b, i) - borrow + RADIX) % RADIX>>
       \o BSubFrom(a, b, i + 1, IF a[i] - BLimb(b, i) - borrow < 0 THEN 1 ELSE 0)

BSub(a, b) == BTrim(BSubFrom(a, b, 1, 0))

RECURSIVE BCmpFrom(_, _, _)
BCmpFrom(a, b, i) ==
  IF i = 0 THEN 0
  ELSE IF a[i] < b[i] THEN -1
  ELSE IF a[i] > b[i] THEN 1
  ELSE BCmpFrom(a, b, i - 1)

\* -1, 0, 1 as a < b, a = b, a > b
BCmp(a, b) ==
  IF Len(a) < Len(b) THEN -1
  ELSE IF Len(a) > Len(b) THEN 1
  ELSE BCmpFrom(a, b, Len(a))

\* a * k for 0 <= k < RADIX
RECURSIVE BMulSmallFrom(_, _, _, _)
BMulSmallFrom(a, k, i, carry) ==
  IF i > Len(a) THEN (IF carry = 0 THEN <<>> ELSE <<carry>>)
  ELSE <<(a[i] * k + carry) % RADIX>>
       \o BMulSmallFrom(a, k, i + 1, (a[i] * k + carry) \div RADIX)

BMulSmall(a, k) == IF k = 0 THEN <<>> ELSE BMulSmallFrom(a, k, 1, 0)

RECURSIVE BZeros(_)
BZeros(n) == IF n = 0 THEN <<>> ELSE <<0>> \o BZeros(n - 1)

BShiftLimbs(a, n) == IF a = <<>> THEN <<>> ELSE BZeros(n) \o a

RECURSIVE BMulFrom(_, _, _)
BMulFrom(a, b, j) ==
  IF j > Len(b) THEN <<>>
  ELSE BAdd(BMulSmall(a, b[j]), BShiftLimbs(BMulFrom(a, b, j + 1), 1))

BMul(a, b) == BMulFrom(a, b, 1)

RECURSIVE Pow2(_)
Pow2(n) == IF n = 0 THEN 1 ELSE 2 * Pow2(n - 1)

\* a * 2^n
BShl(a, n) == BShiftLimbs(BMulSmall(a, Pow2(n % LimbBits)), n \div LimbBits)

\* floor(a / k) for 0 < k <= RADIX, from limb i down, rem carried in
RECURSIVE BDivSmallFrom(_, _, _, _)
BDivSmallFrom(a, k, i, rem) ==
  IF i = 0 THEN <<>>
  ELSE BDivSmallFrom(a, k, i - 1, (rem * RADIX + a[i]) % k)
       \o <<(rem * RADIX + a[i]) \div k>>

BDropLimbs(a, n) == IF n >= Len(a) THEN <<>> ELSE SubSeq(a, n + 1, Len(a))

BDivSmall(a, k) == BTrim(BDivSmallFrom(a, k, Len(a), 0))

\* floor(a / 2^n)
BShr(a, n) == BDivSmall(BDropLimbs(a, n \div LimbBits), Pow2(n % LimbBits))

\* a mod 2^n
BLow(a, n) == BSub(a, BShl(BShr(a, n), n))

RECURSIVE BitLenSmall(_)
BitLenSmall(k) == IF k = 0 THEN 0 ELSE 1 + BitLenSmall(k \div 2)

BBitLen(a) ==
  IF a = <<>> THEN 0 ELSE LimbBits * (Len(a) - 1) + BitLenSmall(a[Len(a)])

BOdd(a) == a # <<>> /\ a[1] % 2 = 1

\* quotient and remainder of n by d # 0: long division limb by limb. With
\* the top limb of d at least RADIX / 2, the quotient limb estimated from
\* the top limbs is at most two too large (Knuth, algorithm D).
BPush(rem, limb) == IF rem = <<>> /\ limb = 0 THEN <<>> ELSE <<limb>> \o rem

BEstimate(cur, d) ==
  IF (BLimb(cur, Len(d) + 1) * RADIX + BLimb(cur, Len(d))) \div d[Len(d)] >= RADIX
  THEN RADIX - 1
  ELSE (BLimb(cur, Len(d) + 1) * RADIX + BLimb(cur, Len(d))) \div d[Len(d)]

RECURSIVE BDivLimbs(_, _, _, _, _)
RECURSIVE BDivCorrect(_, _, _, _, _, _)
BDivCorrect(n, d, i, cur, q, estimate) ==
  IF BCmp(BMulSmall(d, estimate), cur) > 0
  THEN BDivCorrect(n, d, i, cur, q, estimate - 1)
  ELSE BDivLimbs(n, d, i - 1, BSub(cur, BMulSmall(d, estimate)), <<estimate>> \o q)

BDivDigit(n, d, i, cur, q) == BDivCorrect(n, d, i, cur, q, BEstimate(cur, d))

BDivLimbs(n, d, i, rem, q) ==
  IF i = 0 THEN [q |-> BTrim(q), r |-> rem]
  ELSE BDivDigit(n, d, i, BPush(rem, n[i]), q)

BDivNormal(n, d, shift) ==
  BDivLimbs(BShl(n, shift), BShl(d, shift), Len(BShl(n, shift)), <<>>, <<>>)

\* the remainder is left scaled by the normalising shift
BDivMod(n, d) == BDivNormal(n, d, LimbBits - BitLenSmall(d[Len(d)]))

\* floor(sqrt(n)): Newton's iteration from above
BSqrtNext(n, r) ==
  BShr(BAdd(r, BDivMod(n, r).q), 1)

RECURSIVE BSqrtIter(_, _, _)
BSqrtIter(n, r, next) ==
  IF BCmp(next, r) >= 0 THEN r ELSE BSqrtIter(n, next, BSqrtNext(n, next))

BSqrtFrom(n, r) == BSqrtIter(n, r, BSqrtNext(n, r))

BSqrt(n) == IF n = <<>> THEN <<>> ELSE BSqrtFrom(n, BShl(<<1>>, (BBitLen(n) + 1) \div 2))

FZero == [sign |-> 0, man |-> <<>>, exp |-> 0]

\* the bits of a binary64 significand
ManBits == 52 + 1

\* the double nearest to sign * (n + fraction) * 2^e, where the fraction is
\* in [0, 1) and is not zero exactly when sticky; n has two bits more than
\* a mantissa whenever sticky. Ties go to the even mantissa.
FRoundPut(sign, q, e) ==
  IF BBitLen(q) > ManBits THEN [sign |-> sign, man |-> BShr(q, 1), exp |-> e + 1]
  ELSE [sign |-> sign, man |-> q, exp |-> e]

FRoundUp(q, cmp, sticky) ==
  cmp > 0 \/ (cmp = 0 /\ (sticky \/ BOdd(q)))

FRoundCut(sign, n, e, sticky, sh, q) ==
  FRoundPut(sign,
            IF FRoundUp(q, BCmp(BLow(n, sh), BShl(<<1>>, sh - 1)), sticky)
            THEN BAdd(q, <<1>>) ELSE q,
            e + sh)

FRoundBits(sign, n, e, sticky, bl) ==
  IF bl <= ManBits
  THEN [sign |-> sign, man |-> BShl(n, ManBits - bl), exp |-> e - (ManBits - bl)]
  ELSE FRoundCut(sign, n, e, sticky, bl - ManBits, BShr(n, bl - ManBits))

FRound(sign, n, e, sticky) ==
  IF n = <<>> THEN FZero ELSE FRoundBits(sign, n, e, sticky, BBitLen(n))

\* an integer below RADIX * RADIX in magnitude as a double
FInt(k) ==
  IF k = 0 THEN FZero
  ELSE FRound(IF k < 0 THEN -1 ELSE 1,
              BTrim(<<(IF k < 0 THEN -k ELSE k) % RADIX,
                      (IF k < 0 THEN -k ELSE k) \div RADIX>>), 0, FALSE)

FNeg(x) == [sign |-> -x.sign, man |-> x.man, exp |-> x.exp]

\* the magnitudes of x and y compared: -1, 0, 1
FCmpMag(x, y) ==
  IF x.exp < y.exp THEN -1
  ELSE IF x.exp > y.exp THEN 1
  ELSE BCmp(x.man, y.man)

FCmp(x, y) ==
  IF x.sign # y.sign THEN (IF x.sign < y.sign THEN -1 ELSE 1)
  ELSE IF x.sign = 0 THEN 0
  ELSE x.sign * FCmpMag(x, y)

FLess(x, y) == FCmp(x, y) < 0

FLessEq(x, y) == FCmp(x, y) <= 0

\* Math.max, Math.min
FMax(x, y) == IF FLess(x, y) THEN y ELSE x

FMin(x, y) == IF FLess(y, x) THEN y ELSE x

FAddAligned(x, y, a, b, e) ==
  IF x.sign = y.sign THEN FRound(x.sign, BAdd(a, b), e, FALSE)
  ELSE IF BCmp(a, b) = 0 THEN FZero
  ELSE IF BCmp(a, b) > 0 THEN FRound(x.sign, BSub(a, b), e, FALSE)
  ELSE FRound(y.sign, BSub(b, a), e, FALSE)

FAddAt(x, y, e) ==
  FAddAligned(x, y, BShl(x.man, x.exp - e), BShl(y.man, y.exp - e), e)

\* x + y
FAdd(x, y) ==
  IF x.sign = 0 THEN y
  ELSE IF y.sign = 0 THEN x
  ELSE FAddAt(x, y, IF x.exp < y.exp THEN x.exp ELSE y.exp)

\* x - y
FSub(x, y) == FAdd(x, FNeg(y))

\* x * y
FMul(x, y) ==
  IF x.sign = 0 \/ y.sign = 0 THEN FZero
  ELSE FRound(x.sign * y.sign, BMul(x.man, y.man), x.exp + y.exp, FALSE)

FDivPut(sign, e, qr) == FRound(sign, qr.q, e, qr.r # <<>>)

\* x / y for y # 0
FDiv(x, y) ==
  IF x.sign = 0 THEN FZero
  ELSE FDivPut(x.sign * y.sign, x.exp - y.exp - 56,
               BDivMod(BShl(x.man, 56), y.man))

FSqrtPut(n, e, root) == FRound(1, root, e, BCmp(BMul(root, root), n) # 0)

FSqrtOf(n, e) == FSqrtPut(n, e \div 2, BSqrt(n))

\* Math.sqrt(x) for x >= 0
FSqrt(x) ==
  IF x.sign = 0 THEN FZero
  ELSE IF (x.exp - 58) % 2 = 0 THEN FSqrtOf(BShl(x.man, 58), x.exp - 58)
  ELSE FSqrtOf(BShl(x.man, 59), x.exp - 59)

\* the decimal literal n / d (d a power of ten): the nearest double
FDec(n, d) == FDiv(FInt(n), FInt(d))

\* ------------------------------------------------------------------------
\* Track (game/track/Track.ts): the centerline and the projection on it,
\* in the double arithmetic of the code
\* ------------------------------------------------------------------------
\* Vector3.Distance: the square root of x*x + y*y + z*z of the difference
DistanceOf(x, y, z) == FSqrt(FAdd(FAdd(FMul(x, x), FMul(y, y)), FMul(z, z)))

Distance(a, b) == DistanceOf(FSub(a.x, b.x), FSub(a.y, b.y), FSub(a.z, b.z))

\* Track constructor: len += Distance(centerline[i], centerline[i + 1]),
\* cumulative.push(len) (points are counted from 1 here)
CumulativePush(cumulative, centerline, n) ==
  Append(cumulative,
         FAdd(cumulative[n - 1], Distance(centerline[n - 1], centerline[n])))

RECURSIVE CumulativeUpTo(_, _)
CumulativeUpTo(centerline, n) ==
  IF n = 1 THEN <<FZero>>
  ELSE CumulativePush(CumulativeUpTo(centerline, n - 1), centerline, n)

TrackWith(centerline, hw, cumulative) ==
  [centerline |-> centerline, halfWidth |-> hw, cumulative |-> cumulative,
   totalLength |-> cumulative[Len(cumulative)]]

Track(centerline, hw) ==
  TrackWith(centerline, hw, CumulativeUpTo(centerline, Len(centerline)))

\* the literal 1e-6
Micro == FDec(1, 1000000)

\* projectToRef, one turn of the loop: the candidate of the segment a-b
SegmentDist(abx, abz, dx, dz, cx, cz, cum, abLen2, tt, i) ==
  [dist2   |-> FAdd(FMul(dx, dx), FMul(dz, dz)),
   closest |-> Vec(cx, FZero, cz),
   dx |-> dx, dz |-> dz, abx |-> abx, abz |-> abz,
   s       |-> FAdd(cum, FMul(FSqrt(abLen2), tt)),
   segment |-> i, t |-> tt]

SegmentClosest(abx, abz, pos, cx, cz, cum, abLen2, tt, i) ==
  SegmentDist(abx, abz, FSub(pos.x, cx), FSub(pos.z, cz), cx, cz, cum, abLen2, tt, i)

SegmentAt(a, abx, abz, pos, cum, abLen2, tt, i) ==
  SegmentClosest(abx, abz, pos, FAdd(a.x, FMul(abx, tt)), FAdd(a.z, FMul(abz, tt)),
                 cum, abLen2, tt, i)

SegmentParam(a, abx, abz, apx, apz, pos, cum, abLen2, i) ==
  SegmentAt(a, abx, abz, pos, cum, abLen2,
            FMax(FZero,
                 FMin(FInt(1), FDiv(FAdd(FMul(apx, abx), FMul(apz, abz)), abLen2))),
            i)

SegmentProject(a, abx, abz, apx, apz, pos, cum, i) ==
  SegmentParam(a, abx, abz, apx, apz, pos, cum,
               FMax(Micro, FAdd(FMul(abx, abx), FMul(abz, abz))), i)

SegmentCandidate(a, b, pos, cum, i) ==
  SegmentProject(a, FSub(b.x, a.x), FSub(b.z, a.z), FSub(pos.x, a.x),
                 FSub(pos.z, a.z), pos, cum, i)

\* projectToRef: if (dist2 < bestDist2) the candidate replaces the best so far
\* (none = bestDist2 is still +infinity)
KeepBestOrLatest(best, candidate) ==
  IF best.segment = 0 \/ FLessEq(candidate.dist2, best.dist2) THEN candidate ELSE best

KeepBest(best, candidate) ==
  IF best.segment = 0 \/ FLess(candidate.dist2, best.dist2) THEN candidate ELSE best

NoCandidate ==
  [dist2 |-> FZero, closest |-> Vec(FZero, FZero, FZero), dx |-> FZero,
   dz |-> FZero, abx |-> FZero, abz |-> FZero, s |-> FZero, segment |-> 0,
   t |-> FZero]

\* projectToRef: the loop over the segments, from segment i on
RECURSIVE ProjectFrom(_, _, _, _)
ProjectFrom(track, pos, i, best) ==
  IF i > Len(track.centerline) - 1 THEN best
  ELSE ProjectFrom(track, pos, i + 1,
                   KeepBest(best,
                            SegmentCandidate(track.centerline[i],
                                             track.centerline[i + 1], pos,
                                             track.cumulative[i], i)))

\* projectToRef: the normal of the winning candidate. Math.hypot is taken
\* as the rounded square root of the rounded sum of squares; || 1 replaces
\* a zero length.
PerpendicularBy(nx, nz, nLen) ==
  IF nLen.sign = 0 THEN Vec(nx, FZero, nz)
  ELSE Vec(FDiv(nx, nLen), FZero, FDiv(nz, nLen))

Perpendicular(nx, nz) ==
  PerpendicularBy(nx, nz, FSqrt(FAdd(FMul(nx, nx), FMul(nz, nz))))

TowardBy(dx, dz, inv) == Vec(FMul(dx, inv), FZero, FMul(dz, inv))

NormalOf(best) ==
  IF FLess(best.dist2, Micro) THEN Perpendicular(best.abz, FNeg(best.abx))
  ELSE TowardBy(best.dx, best.dz, FDiv(FInt(1), FSqrt(best.dist2)))

\* projectToRef / project: the result, with the winning segment and its
\* parameter kept beside it
Projection(best) ==
  [closest |-> best.closest, normal |-> NormalOf(best),
   distance |-> FSqrt(best.dist2), s |-> best.s,
   segment |-> best.segment, t |-> best.t]

Project(track, pos) == Projection(ProjectFrom(track, pos, 1, NoCandidate))

\* surfaceAt / surfaceAtToRef
OnTrackOf(track, projection) ==
  [projection |-> projection,
   onTrack |-> FLessEq(projection.distance, track.halfWidth)]

SurfaceAt(track, pos) == OnTrackOf(track, Project(track, pos))

\* a point with coordinates given in tenths of a metre
Tenths(x, z) == Vec(FDec(x, 10), FZero, FDec(z, 10))

\* the straight segment (0,0,0)-(0,0,100), a closed rectangle with whole
\* coordinates and a closed triangle with coordinates in tenths, halfWidth 8
StraightTrack == Track(<<Tenths(0, 0), Tenths(0, 1000)>>, FInt(halfWidth))

RectangleTrack ==
  Track(<<Tenths(0, 0), Tenths(400, 0), Tenths(400, 300), Tenths(0, 300),
          Tenths(0, 0)>>, FInt(halfWidth))

TriangleTrack ==
  Track(<<Tenths(33, 95), Tenths(-270, 337), Tenths(-501, -318), Tenths(33, 95)>>,
        FInt(halfWidth))

TrackNamed(name) ==
  IF name = "straight" THEN StraightTrack
  ELSE IF name = "rectangle" THEN RectangleTrack
  ELSE TriangleTrack

\* query positions beside the straight, and around each closed track and
\* its first point
ProjectQueries ==
  { [track |-> "straight", pos |-> Tenths(x, z)] :
      x \in {50, 80, 200}, z \in {0, 500, 1000} }
  \cup
  { [track |-> "rectangle", pos |-> Tenths(x, z)] :
      x \in {-90, -25, 0, 25, 200}, z \in {-81, -30, 0, 30, 150} }
  \cup
  { [track |-> "triangle", pos |-> Tenths(x, z)] :
      x \in {-270, -100, 8, 33, 58}, z \in {-100, 64, 95, 120, 337} }

\* the game as constructed, and a query about to be made
InitQuery(queries) ==
  /\ sim = StartSim
  /\ params = GameParams
  /\ upd = NoUpdate
  /\ nitroLog = NoNitroCall
  /\ arranged = FALSE
  /\ carTicks = 0
  /\ course = NoCourse
  /\ jump = NoJump
  /\ InitLoop
  /\ InitLapState
  /\ gameInput = NoInput
  /\ query \in {[made |-> FALSE, args |-> q] : q \in queries}

InitProject == InitQuery(ProjectQueries)

\* track.surfaceAt(pos)
AskSurfaceAt ==
  /\ ~query.made
  /\ query' = [made |-> TRUE, args |-> query.args,
               answer |-> SurfaceAt(TrackNamed(query.args.track), query.args.pos)]
  /\ UNCHANGED <<carVars, course, jump, loopVars, gameVars>>

SpecProject == InitProject /\ [][AskSurfaceAt]_vars

\* the first and the last point of the centerline coincide
Closed(track) == track.centerline[1] = track.centerline[Len(track.centerline)]

\* the distance in the ground plane from pos to the point of segment i at
\* parameter u
SampleApart(pos, x, z) ==
  FSqrt(FAdd(FMul(FSub(pos.x, x), FSub(pos.x, x)),
             FMul(FSub(pos.z, z), FSub(pos.z, z))))

SampleDistance(pos, a, b, u) ==
  SampleApart(pos, FAdd(a.x, FMul(FSub(b.x, a.x), u)),
              FAdd(a.z, FMul(FSub(b.z, a.z), u)))

\* d is no more than e, up to a millionth of e and a millionth of a metre
NoFartherThan(d, e) ==
  FLessEq(d, FAdd(FMul(e, FAdd(FInt(1), Micro)), Micro))

LeastDistance(track, pos, d) ==
  \A i \in 1..(Len(track.centerline) - 1) :
    \A u \in {FZero, FDec(5, 10), FInt(1)} :
      NoFartherThan(d, SampleDistance(pos, track.centerline[i],
                                      track.centerline[i + 1], u))

ArcLengthOf(track, p) ==
  FAdd(track.cumulative[p.segment],
       FMul(p.t, Distance(track.centerline[p.segment],
                          track.centerline[p.segment + 1])))

StraightExample(args, answer) ==
  /\ args = [track |-> "straight", pos |-> Tenths(50, 500)]
       => /\ answer.projection.distance = FInt(5)
          /\ answer.projection.s = FInt(50)
          /\ answer.onTrack
  /\ args = [track |-> "straight", pos |-> Tenths(200, 500)]
       => /\ answer.projection.distance = FInt(20)
          /\ ~answer.onTrack

\* what the projection of pos on the track promises, but for the range of s
ProjectionSound(track, args, answer) ==
  /\ FLessEq(FZero, answer.projection.distance)
  /\ LeastDistance(track, args.pos, answer.projection.distance)
  /\ FLessEq(FZero, answer.projection.t)
  /\ FLessEq(answer.projection.t, FInt(1))
  /\ answer.projection.s = ArcLengthOf(track, answer.projection)
  /\ answer.onTrack <=> FLessEq(answer.projection.distance, track.halfWidth)
  /\ StraightExample(args, answer)

\* C14: for every query position and every closed centerline, project
\* returns the candidate of least distance over all segments: distance is
\* the least distance from the position to the polyline and is >= 0,
\* s = cumulative[i] + t * |segment i| for the winning segment with
\* 0 <= s < totalLength, and onTrack holds exactly when distance <=
\* halfWidth; on the straight (0,0,0)-(0,0,100) with halfWidth 8, (5,0,50)
\* gives distance 5, s 50, on track and (20,0,50) gives distance 20, off
\* track.
C14_ProjectContract ==
  query.made =>
    /\ ProjectionSound(TrackNamed(query.args.track), query.args, query.answer)
    /\ Closed(TrackNamed(query.args.track))
         => /\ FLessEq(FZero, query.answer.projection.s)
            /\ FLess(query.answer.projection.s,
                     TrackNamed(query.args.track).totalLength)

\* C14, what stays true: the same with 0 <= s <= totalLength
C14_ProjectUpToTotalLength ==
  query.made =>
    /\ ProjectionSound(TrackNamed(query.args.track), query.args, query.answer)
    /\ Closed(TrackNamed(query.args.track))
         => /\ FLessEq(FZero, query.answer.projection.s)
            /\ FLessEq(query.answer.projection.s,
                       TrackNamed(query.args.track).totalLength)

\* C14: the closing segment of the triangle wins at its far end, and s is
\* the whole length of the track
C14_ClosingSegmentWins ==
  /\ query.made
  /\ query.args = [track |-> "triangle", pos |-> Tenths(58, 64)]
  /\ query.answer.projection.segment = 3
  /\ query.answer.projection.t = FInt(1)
  /\ query.answer.projection.s = TriangleTrack.totalLength
  /\ query.answer.onTrack

\* ------------------------------------------------------------------------
\* Ramps (RampSystem.getHeightAt)
\* ------------------------------------------------------------------------
\* createScene: addRampOnTrack(track, 0.15, 8, 14, 1.5) and
\* addRampOnTrack(track, 0.65, 8, 14, 1.5); rotation = atan2(rampDir.x, rampDir.z)
RampInfoOf(pos, dir) ==
  [position |-> pos, rotation |-> Atan2(dir.x, dir.z), width |-> 8 * ONE,
   length |-> 14 * ONE, height |-> Fixed(15, 10)]

\* the two ramps lie on the straights, 0.15 of the lap after their first point
SceneRamps ==
  << RampInfoOf(Vec((halfX - radius) * ONE - Mul(TotalLength, Fixed(15, 100)), 0,
                    -(halfZ * ONE)), Vec(-ONE, 0, 0)),
     RampInfoOf(Vec(-((halfX - radius) * ONE) + Mul(TotalLength, Fixed(15, 100)), 0,
                    halfZ * ONE), Vec(ONE, 0, 0)) >>

\* the remainder of JavaScript's %: its sign is the sign of a
JsRem(a, m) == Sign(a) * (Abs(a) % m)

\* getHeightAt: "Rotate to ramp local space"
RampLocalBy(dx, dz, cos, sin) ==
  [x |-> Mul(dx, cos) - Mul(dz, sin), z |-> Mul(dx, sin) + Mul(dz, cos)]

RampLocal(ramp, pos) ==
  RampLocalBy(pos.x - ramp.position.x, pos.z - ramp.position.z,
              Cos(-ramp.rotation), Sin(-ramp.rotation))

\* getHeightAt: normalizedDir and approachingCorrectly
NormalizedDir(carDir) == JsRem(JsRem(carDir, TWO_PI) + TWO_PI, TWO_PI)

ApproachingCorrectly(carYaw, ramp) ==
  \/ NormalizedDir(carYaw - ramp.rotation) < PI \div 3
  \/ NormalizedDir(carYaw - ramp.rotation) > (PI * 5) \div 3

\* getHeightAt: t = (localZ + hl) / ramp.length
RampT(ramp, localZ) == Div(localZ + ramp.length \div 2, ramp.length)

\* easeInOutCubic (the profile of the bridge ramps)
EaseInOutCubic(tt) ==
  IF tt < Fixed(1, 2) THEN 4 * Mul(Mul(tt, tt), tt)
  ELSE ONE - Mul(Mul(2 * ONE - 2 * tt, 2 * ONE - 2 * tt), 2 * ONE - 2 * tt) \div 2

RampHeightEased(ramp, tt) == Mul(EaseInOutCubic(tt), ramp.height)

\* getHeightAt: height = t * ramp.height
RampHeight(ramp, tt) == Mul(tt, ramp.height)

\* getHeightAt: the result on hitting a side barrier
RampSide(local) ==
  [height |-> 0, normal |-> Vec(IF local.x > 0 THEN ONE ELSE -ONE, 0, 0),
   onRamp |-> FALSE, sideCollision |-> TRUE, atRampEdge |-> FALSE,
   rampDirection |-> Vec(0, 0, ONE), rampAngle |-> 0]

\* getHeightAt: the result on approaching the wrong way
RampFront ==
  [height |-> 0, normal |-> Vec(0, 0, ONE), onRamp |-> FALSE,
   sideCollision |-> TRUE, atRampEdge |-> FALSE,
   rampDirection |-> Vec(0, 0, ONE), rampAngle |-> 0]

Normalized(v, len) == IF len = 0 THEN v ELSE Vec(Div(v.x, len), Div(v.y, len), Div(v.z, len))

\* getHeightAt: the slope normal rotated back to world space, normalized
RampNormal(ramp, slopeAngle) ==
  Normalized(Vec(Mul(-Sin(slopeAngle), Sin(ramp.rotation)), Cos(slopeAngle),
                 Mul(-Sin(slopeAngle), Cos(ramp.rotation))),
             Length(Vec(Mul(-Sin(slopeAngle), Sin(ramp.rotation)), Cos(slopeAngle),
                        Mul(-Sin(slopeAngle), Cos(ramp.rotation)))))

\* getHeightAt: the result on the ramp surface
RampSurface(ramp, tt, approaching, slopeAngle) ==
  [height |-> RampHeight(ramp, tt), normal |-> RampNormal(ramp, slopeAngle),
   onRamp |-> TRUE, sideCollision |-> FALSE,
   atRampEdge |-> tt > Fixed(85, 100) /\ approaching,
   rampDirection |-> Vec(Sin(ramp.rotation), 0, Cos(ramp.rotation)),
   rampAngle |-> slopeAngle]

RampWithinAnyHeading(ramp, local, tt, approaching) ==
  RampSurface(ramp, tt, approaching, Atan2(ramp.height, ramp.length))

\* getHeightAt: within the width and the length of the ramp
RampWithin(ramp, local, tt, approaching) ==
  IF local.z > 0 /\ ~approaching /\ tt > Fixed(1, 2) THEN RampFront
  ELSE RampSurface(ramp, tt, approaching, Atan2(ramp.height, ramp.length))

\* getHeightAt, one turn of the loop: the result this ramp returns, if any
RampAt(ramp, local, carYaw) ==
  IF /\ local.z >= -(ramp.length \div 2) /\ local.z <= ramp.length \div 2
     /\ Abs(local.x) > ramp.width \div 2
     /\ Abs(local.x) <= ramp.width \div 2 + Fixed(1, 2)
  THEN [returned |-> TRUE, info |-> RampSide(local)]
  ELSE IF /\ Abs(local.x) <= ramp.width \div 2
          /\ local.z >= -(ramp.length \div 2) /\ local.z <= ramp.length \div 2
  THEN [returned |-> TRUE,
        info |-> RampWithin(ramp, local, RampT(ramp, local.z),
                            ApproachingCorrectly(carYaw, ramp))]
  ELSE [returned |-> FALSE]

\* getHeightAt: the loop over the ramps, the first result returned wins
RECURSIVE RampHeightFrom(_, _, _, _)
RampTurn(ramps, pos, carYaw, i, result) ==
  IF result.returned THEN result.info ELSE RampHeightFrom(ramps, pos, carYaw, i + 1)

RampHeightFrom(ramps, pos, carYaw, i) ==
  IF i > Len(ramps) THEN NoRampInfo
  ELSE RampTurn(ramps, pos, carYaw, i,
                RampAt(ramps[i], RampLocal(ramps[i], pos), carYaw))

GetHeightAt(ramps, pos, carYaw) == RampHeightFrom(ramps, pos, carYaw, 1)

\* an angle given in degrees
Degrees(d) == (d * PI) \div 180

\* queries around each ramp of the scene: offsets along and across the
\* straight (hundredths of a metre), headings relative to the ramp (degrees)
RampQueries ==
  { [ramp |-> k,
     pos |-> Vec(SceneRamps[k].position.x + Fixed(along, 100), Fixed(55, 100),
                 SceneRamps[k].position.z + Fixed(across, 100)),
     carYaw |-> SceneRamps[k].rotation + Degrees(heading)] :
      k \in 1..Len(SceneRamps),
      along \in {-750, -699, -504, -476, -350, -70, 0, 70, 350, 476, 504, 699, 750},
      across \in {-500, -430, -300, 0, 300, 430, 500},
      heading \in {0, 50, 59, 61, 70, 180, 290, 310, -50} }

InitRampQuery == InitQuery(RampQueries)

\* ramps.getHeightAt(pos, carYaw)
AskRampHeight ==
  /\ ~query.made
  /\ query' = [made |-> TRUE, args |-> query.args,
               answer |-> GetHeightAt(SceneRamps, query.args.pos, query.args.carYaw)]
  /\ UNCHANGED <<carVars, course, jump, loopVars, gameVars>>

SpecRamp == InitRampQuery /\ [][AskRampHeight]_vars

\* the ramp a query is made at, the local position and the longitudinal
\* parameter of its point
QueryRamp == SceneRamps[query.args.ramp]

QueryLocal == RampLocal(QueryRamp, query.args.pos)

QueryT == RampT(QueryRamp, QueryLocal.z)

\* the point of the query lies inside the footprint of its ramp
InFootprint ==
  /\ Abs(QueryLocal.x) <= QueryRamp.width \div 2
  /\ Abs(QueryLocal.z) <= QueryRamp.length \div 2

\* the profile of a ramp over t in [0, 1] (in steps of 1/1000): from 0 to
\* ramp.height, never decreasing, without a jump
ProfileSteady(ramp) ==
  /\ RampHeight(ramp, 0) = 0
  /\ RampHeight(ramp, ONE) = ramp.height
  /\ \A k \in 0..999 :
       /\ RampHeight(ramp, Fixed(k, 1000)) <= RampHeight(ramp, Fixed(k + 1, 1000))
       /\ RampHeight(ramp, Fixed(k + 1, 1000)) - RampHeight(ramp, Fixed(k, 1000))
            <= Fixed(2, 1000)

InCone == Abs(WrapAngle(query.args.carYaw - QueryRamp.rotation)) < Degrees(60)

\* C16: for a point inside a ramp footprint, atRampEdge is true exactly when
\* t > 0.85 and the heading is within 60 degrees of the ramp's forward
\* direction; near the top with a heading outside that cone the result is a
\* side collision and no ramp surface (onRamp false, atRampEdge false,
\* height 0); sideCollision and onRamp are never both true
C16_LaunchEdge ==
  query.made =>
    /\ ~(query.answer.sideCollision /\ query.answer.onRamp)
    /\ InFootprint =>
         /\ query.answer.atRampEdge <=> (QueryT > Fixed(85, 100) /\ InCone)
         /\ (QueryT > Fixed(85, 100) /\ ~InCone) =>
              /\ query.answer.sideCollision
              /\ ~query.answer.onRamp
              /\ ~query.answer.atRampEdge
              /\ query.answer.height = 0

\* C16: a car near the top of a ramp, heading against it
C16_Witness ==
  /\ query.made
  /\ InFootprint
  /\ QueryT > Fixed(85, 100)
  /\ ~InCone
  /\ query.answer.sideCollision
  /\ ~query.answer.onRamp

\* C16: a car at the launch edge, heading up the ramp
C16_AtLaunchEdge ==
  /\ query.made
  /\ InFootprint
  /\ query.answer.atRampEdge
  /\ query.answer.onRamp

\* ------------------------------------------------------------------------
\* BridgeSystem: the bridge and the overpass route of createScene, and
\* getHeightAt(pos, carY)
\* ------------------------------------------------------------------------
\* addBridge(startX, startZ, endX, endZ, width, height): rampLength = height * 4
BridgeInfoOf(start, end, width, height) ==
  [start |-> start, end |-> end, width |-> width, height |-> height,
   rampLength |-> 4 * height,
   direction |-> Normalized(Vec(end.x - start.x, 0, end.z - start.z),
                            Length(Vec(end.x - start.x, 0, end.z - start.z)))]

\* createScene: bridges.addBridge(-83, 0, 83, 0, 10, 3)
SceneBridge ==
  BridgeInfoOf(Vec(-83 * ONE, 0, 0), Vec(83 * ONE, 0, 0), 10 * ONE, 3 * ONE)

\* addCurvedOverpass: cubic(a, b, c, d, t) with it = 1 - t
CubicBy(a, b, c, d, t, it) ==
    Mul(Mul(Mul(it, it), it), a) + Mul(Mul(3 * Mul(it, it), t), b)
  + Mul(Mul(Mul(3 * it, t), t), c) + Mul(Mul(Mul(t, t), t), d)

Cubic(a, b, c, d, t) == CubicBy(a, b, c, d, t, ONE - t)

rampSteps == 36

deckSteps == 24

\* addCurvedOverpass: minElevation = 0.15
minElevation == Fixed(15, 100)

\* addCurvedOverpass: the i-th point of the rising ramp, of the deck and of
\* the falling ramp
OverpassUp(o, i) ==
  Vec(Cubic(o.startX, o.startX, o.deckX, o.deckX, Fixed(i, rampSteps)),
      minElevation + Mul(EaseInOutCubic(Fixed(i, rampSteps)), o.height - minElevation),
      Cubic(o.startZ, Mul(o.startZ + o.deckStartZ, Fixed(1, 2)),
            Mul(o.startZ + o.deckStartZ, Fixed(1, 2)), o.deckStartZ,
            Fixed(i, rampSteps)))

OverpassDeck(o, i) ==
  Vec(o.deckX, o.height,
      o.deckStartZ + Mul(o.deckEndZ - o.deckStartZ, Fixed(i, deckSteps)))

OverpassDown(o, i) ==
  Vec(Cubic(o.deckX, o.deckX, o.endX, o.endX, Fixed(i, rampSteps)),
      minElevation + Mul(EaseInOutCubic(ONE - Fixed(i, rampSteps)),
                         o.height - minElevation),
      Cubic(o.deckEndZ, Mul(o.endZ + o.deckEndZ, Fixed(1, 2)),
            Mul(o.endZ + o.deckEndZ, Fixed(1, 2)), o.endZ, Fixed(i, rampSteps)))

\* addCurvedOverpass: the route pushed, its path in the order of the pushes
CurvedOverpass(o) ==
  [width |-> o.width,
   path  |-> [k \in 1..(2 * rampSteps + deckSteps + 1) |->
                IF k <= rampSteps + 1 THEN OverpassUp(o, k - 1)
                ELSE IF k <= rampSteps + 1 + deckSteps
                THEN OverpassDeck(o, k - (rampSteps + 1))
                ELSE OverpassDown(o, k - (rampSteps + 1 + deckSteps))]]

\* createScene: bridges.addCurvedOverpass({startX: 90, startZ: -45, endX: 90,
\* endZ: 45, deckX: 72, deckStartZ: -20, deckEndZ: 20, width: 10, height: 3})
SceneOverpass ==
  CurvedOverpass([startX |-> 90 * ONE, startZ |-> -45 * ONE, endX |-> 90 * ONE,
                  endZ |-> 45 * ONE, deckX |-> 72 * ONE, deckStartZ |-> -20 * ONE,
                  deckEndZ |-> 20 * ONE, width |-> 10 * ONE, height |-> 3 * ONE])

\* getHeightAt: barrierWidth = 0.6
barrierWidth == Fixed(6, 10)

\* getHeightAt, a segment of a route: what the segment does to the result.
\* kind "side" = the barrier is hit, "on" = the car is over the segment
RouteVerdict(halfW, h, ddx, ddz, dist2, carY) ==
  IF /\ dist2 > Mul(halfW, halfW)
     /\ dist2 <= Mul(halfW + barrierWidth, halfW + barrierWidth)
     /\ h > Fixed(1, 2) /\ carY >= h - ONE
  THEN [kind |-> "side", h |-> h,
        normal |-> Vec(Div(ddx, Sqrt(dist2)), 0, Div(ddz, Sqrt(dist2)))]
  ELSE IF dist2 > Mul(halfW, halfW) THEN [kind |-> "skip", h |-> h]
  ELSE [kind |-> "on", h |-> h]

RouteClosest(halfW, a, b, pos, carY, t) ==
  RouteVerdict(halfW, a.y + Mul(b.y - a.y, t),
               pos.x - (a.x + Mul(b.x - a.x, t)),
               pos.z - (a.z + Mul(b.z - a.z, t)),
                 Mul(pos.x - (a.x + Mul(b.x - a.x, t)), pos.x - (a.x + Mul(b.x - a.x, t)))
               + Mul(pos.z - (a.z + Mul(b.z - a.z, t)), pos.z - (a.z + Mul(b.z - a.z, t))),
               carY)

\* len2 < 1e-6 is len2 = 0 at the resolution of the arithmetic
RouteLen2(halfW, a, b, pos, carY, len2) ==
  IF len2 < 1 THEN [kind |-> "skip", h |-> 0]
  ELSE RouteClosest(halfW, a, b, pos, carY,
                    Max(0, Min(ONE, Div(  Mul(pos.x - a.x, b.x - a.x)
                                        + Mul(pos.z - a.z, b.z - a.z), len2))))

RouteSegment(width, a, b, pos, carY) ==
  RouteLen2(Mul(width, Fixed(1, 2)), a, b, pos, carY,
            Mul(b.x - a.x, b.x - a.x) + Mul(b.z - a.z, b.z - a.z))

\* getHeightAt: bestHeight, onAny, sideCollision and collisionNormal after a
\* turn of either loop with the given verdict
BridgeTurn(acc, v) ==
  IF v.kind = "side"
  THEN [acc EXCEPT !.sideCollision = TRUE, !.normal = v.normal]
  ELSE IF v.kind = "on"
  THEN [acc EXCEPT !.height = Max(@, v.h), !.onBridge = TRUE]
  ELSE acc

\* getHeightAt: the results of two stretches of a loop put together, the later
\* stretch after the earlier one
BridgeMerge(acc, later) ==
  [height        |-> Max(acc.height, later.height),
   onBridge      |-> acc.onBridge \/ later.onBridge,
   sideCollision |-> acc.sideCollision \/ later.sideCollision,
   normal        |-> IF later.sideCollision THEN later.normal ELSE acc.normal]

\* getHeightAt: the loop over the segments lo..hi of a route, in order
RECURSIVE RouteRange(_, _, _, _, _)
RouteRange(route, pos, carY, lo, hi) ==
  IF lo > hi THEN NoBridgeInfo
  ELSE IF lo = hi
  THEN BridgeTurn(NoBridgeInfo,
                  RouteSegment(route.width, route.path[lo], route.path[lo + 1],
                               pos, carY))
  ELSE BridgeMerge(RouteRange(route, pos, carY, lo, (lo + hi) \div 2),
                   RouteRange(route, pos, carY, (lo + hi) \div 2 + 1, hi))

\* getHeightAt: the loop over the routes
RECURSIVE RoutesFrom(_, _, _, _, _)
RoutesFrom(routes, pos, carY, i, acc) ==
  IF i > Len(routes) THEN acc
  ELSE RoutesFrom(routes, pos, carY, i + 1,
                  BridgeMerge(acc, RouteRange(routes[i], pos, carY, 1,
                                              Len(routes[i].path) - 1)))

\* getHeightAt: bridgeHeight, the height of the bridge at a distance along it
BridgeHeightAlong(bridge, along, deckLength) ==
  IF along >= -bridge.rampLength /\ along < 0
  THEN Mul(EaseInOutCubic(Div(along + bridge.rampLength, bridge.rampLength)),
           bridge.height)
  ELSE IF along >= 0 /\ along <= deckLength THEN bridge.height
  ELSE IF along > deckLength /\ along <= deckLength + bridge.rampLength
  THEN Mul(EaseInOutCubic(ONE - Div(along - deckLength, bridge.rampLength)),
           bridge.height)
  ELSE 0

\* getHeightAt, a bridge: the side barrier hit while elevated, the side of
\* the bridge hit from below, or the section of the bridge under the car
BridgeVerdict(bridge, perp, along, perpDist, deckLength, bridgeHeight, carY) ==
  IF /\ along >= -bridge.rampLength /\ along <= deckLength + bridge.rampLength
     /\ Abs(perpDist) > bridge.width \div 2
     /\ Abs(perpDist) <= bridge.width \div 2 + barrierWidth
     /\ bridgeHeight > Fixed(1, 2) /\ carY >= bridgeHeight - Fixed(15, 10)
  THEN [kind |-> "side", h |-> bridgeHeight,
        normal |-> Scale(perp, IF perpDist > 0 THEN ONE ELSE -ONE)]
  ELSE IF /\ along >= -bridge.rampLength /\ along <= deckLength + bridge.rampLength
          /\ Abs(perpDist) <= bridge.width \div 2 + barrierWidth
          /\ bridgeHeight > Fixed(3, 10)
          /\ carY < bridgeHeight - Fixed(1, 2)
          /\ Abs(perpDist) > Mul(bridge.width \div 2, Fixed(7, 10))
  THEN [kind |-> "side", h |-> bridgeHeight,
        normal |-> Scale(perp, IF perpDist > 0 THEN ONE ELSE -ONE)]
  ELSE IF Abs(perpDist) > bridge.width \div 2 THEN [kind |-> "skip", h |-> bridgeHeight]
  ELSE IF along >= -bridge.rampLength /\ along <= deckLength + bridge.rampLength
  THEN [kind |-> "on", h |-> bridgeHeight]
  ELSE [kind |-> "skip", h |-> bridgeHeight]

BridgeAlong(bridge, perp, along, perpDist, deckLength, carY) ==
  BridgeVerdict(bridge, perp, along, perpDist, deckLength,
                BridgeHeightAlong(bridge, along, deckLength), carY)

BridgeAt(bridge, pos, carY) ==
  BridgeAlong(bridge, Vec(-bridge.direction.z, 0, bridge.direction.x),
              Dot(Vec(pos.x - bridge.start.x, pos.y - bridge.start.y,
                      pos.z - bridge.start.z), bridge.direction),
              Dot(Vec(pos.x - bridge.start.x, pos.y - bridge.start.y,
                      pos.z - bridge.start.z),
                  Vec(-bridge.direction.z, 0, bridge.direction.x)),
              Length(Vec(bridge.end.x - bridge.start.x, bridge.end.y - bridge.start.y,
                         bridge.end.z - bridge.start.z)),
              carY)

\* getHeightAt: the loop over the bridges
RECURSIVE BridgesFrom(_, _, _, _, _)
BridgesFrom(bridges, pos, carY, i, acc) ==
  IF i > Len(bridges) THEN acc
  ELSE BridgesFrom(bridges, pos, carY, i + 1,
                   BridgeTurn(acc, BridgeAt(bridges[i], pos, carY)))

\* BridgeSystem.getHeightAt(pos, carY)
BridgeGetHeightAt(routes, bridges, pos, carY) ==
  BridgesFrom(bridges, pos, carY, 1, RoutesFrom(routes, pos, carY, 1, NoBridgeInfo))

\* ------------------------------------------------------------------------
\* tickSim over the ramps, the bridge and the overpass: the car leaves the
\* start line and is then found at spots around them
\* ------------------------------------------------------------------------
\* two ticks at the spots follow the ticks of the start straight
MaxGroundTicks == StraightTicks + 2

\* the scene with the overpass route, the scene with the straight bridge
\* (the two createScene of the sources), and a ramp system with a third ramp
\* added 0.02 of a lap behind the first, so that two footprints overlap
CloseRamp ==
  RampInfoOf(Vec((halfX - radius) * ONE - Mul(TotalLength, Fixed(17, 100)), 0,
                 -(halfZ * ONE)), Vec(-ONE, 0, 0))

Scenes ==
  { [name |-> "overpass", ramps |-> SceneRamps, routes |-> <<SceneOverpass>>,
     bridges |-> <<>>],
    [name |-> "bridge", ramps |-> SceneRamps, routes |-> <<>>,
     bridges |-> <<SceneBridge>>],
    [name |-> "close ramps", ramps |-> <<SceneRamps[1], CloseRamp, SceneRamps[2]>>,
     routes |-> <<>>, bridges |-> <<SceneBridge>>] }

\* spots (x, z) of a scene, in hundredths of a metre
Spot(x, z) == [x |-> Fixed(x, 100), z |-> Fixed(z, 100)]

OverpassSpots ==
  { Spot(7200, 0), Spot(7600, 0), Spot(7730, 0), Spot(8000, 0),
    Spot(6670, 1000), Spot(8100, -3250), Spot(8100, -2720), Spot(8100, -3800),
    Spot(9000, -4500), Spot(7500, -7000) }

BridgeSpots ==
  { Spot(-9000, 0), Spot(-9000, 400), Spot(-9000, 530), Spot(-8600, 0),
    Spot(-8600, -530), Spot(0, 0), Spot(0, 400), Spot(0, 530), Spot(0, -700),
    Spot(7500, -7000) }

CloseRampSpots ==
  { Spot(-2677, -7000), Spot(-2677, -6570), Spot(-2027, -7000),
    Spot(-2027, -7430), Spot(-3297, -7000), Spot(-1400, -7000),
    Spot(2027, 7000), Spot(2500, 7000), Spot(0, 530), Spot(7500, -7000) }

SpotsOf(scene) ==
  IF scene.name = "overpass" THEN OverpassSpots
  ELSE IF scene.name = "bridge" THEN BridgeSpots
  ELSE CloseRampSpots

\* the terrain heights under the spots
TerrainHeights == {0, ONE}

\* tickSim, "Check for ramps and bridges": what the world answers for a car
\* of state s at a spot of the scene
GroundPlace(scene, spot, terrain, s) ==
  [s |-> StartStraight.s, onTrack |-> TRUE, distance |-> 0,
   normal |-> Vec(0, 0, ONE), terrain |-> terrain,
   ramp |-> GetHeightAt(scene.ramps, Vec(spot.x, s.position.y, spot.z), s.yawRad),
   bridge |-> BridgeGetHeightAt(scene.routes, scene.bridges,
                                Vec(spot.x, s.position.y, spot.z), s.position.y),
   onSpeedPad |-> FALSE, barrier |-> NoContact,
   at |-> Vec(spot.x, s.position.y, spot.z)]

GroundPlaces(k) ==
  IF k < StraightTicks THEN {StartStraight}
  ELSE IF k >= MaxGroundTicks THEN {}
  ELSE { GroundPlace(query.args, spot, terrain, sim) :
           spot \in SpotsOf(query.args), terrain \in TerrainHeights }

GroundTick(place) ==
  /\ carTicks < MaxGroundTicks
  /\ TickSim(StepDt, place)
  /\ UNCHANGED <<loopVars, clock>>

NextGround == \E place \in GroundPlaces(carTicks) : GroundTick(place)

\* Game.ts as constructed in one of the scenes, the driver holding the controls
InitGround ==
  /\ sim = StartSim
  /\ params = GameParams
  /\ upd = NoUpdate
  /\ nitroLog = NoNitroCall
  /\ arranged = FALSE
  /\ carTicks = 0
  /\ course = NoCourse
  /\ jump = NoJump
  /\ InitLoop
  /\ InitLapState
  /\ gameInput \in HeldInputs
  /\ query \in {[made |-> FALSE, args |-> scene] : scene \in Scenes}

SpecGround == InitGround /\ [][NextGround]_vars

\* the last tick was made at a spot of the scene
GroundTicked == tickLog.ran /\ "at" \in DOMAIN tickLog.place

\* what the k-th ramp of the scene answers for the car of the last tick, and
\* the ramps that return an answer
RampVerdict(k) ==
  RampAt(query.args.ramps[k], RampLocal(query.args.ramps[k], tickLog.place.at),
         tickLog.simBefore.yawRad)

MatchingRamps == {k \in 1..Len(query.args.ramps) : RampVerdict(k).returned}

FirstMatch == CHOOSE k \in MatchingRamps : \A j \in MatchingRamps : k <= j

\* a segment of a route or a bridge of the scene signals a hit barrier for
\* the car of the last tick
BarrierSignalled ==
  \/ \E r \in 1..Len(query.args.routes) :
       \E i \in 1..(Len(query.args.routes[r].path) - 1) :
         RouteSegment(query.args.routes[r].width, query.args.routes[r].path[i],
                      query.args.routes[r].path[i + 1], tickLog.place.at,
                      tickLog.simBefore.position.y).kind = "side"
  \/ \E b \in 1..Len(query.args.bridges) :
       BridgeAt(query.args.bridges[b], tickLog.place.at,
                tickLog.simBefore.position.y).kind = "side"

\* the last tick handled one side collision with the given normal: the
\* damage of the impact speed is added, and a car moving into the barrier
\* bounces off it
SideHandled(normal) ==
  /\ tickLog.beforeUpdate.damage =
       AddDamage(tickLog.worldBefore.damage,
                 Max(0, Mul(Mul(SpeedMps(tickLog.simBefore), Fixed(36, 10)) - 15 * ONE,
                            Fixed(4, 10))))
  /\ tickLog.beforeUpdate.sim.velocity =
       IF Dot(tickLog.simBefore.velocity, normal) < 0
       THEN Scale(Add(tickLog.simBefore.velocity,
                      Scale(normal, Mul(-Dot(tickLog.simBefore.velocity, normal),
                                        Fixed(15, 10)))),
                  Fixed(6, 10))
       ELSE tickLog.simBefore.velocity

\* C17: the ground height handed to the vehicle in a tick is the maximum of
\* the terrain, ramp and bridge heights at the car position; the first ramp
\* in iteration order that answers decides the ramp result; a barrier
\* signalled by any route segment or bridge is surfaced in the bridge result;
\* and a surfaced side collision is handled in that tick (impact damage, and
\* the bounce of a car moving into the barrier)
C17_GroundMerge ==
  GroundTicked =>
    /\ upd.ground.height >= tickLog.place.terrain
    /\ upd.ground.height >= tickLog.place.ramp.height
    /\ upd.ground.height >= tickLog.place.bridge.height
    /\ upd.ground.height \in {tickLog.place.terrain, tickLog.place.ramp.height,
                              tickLog.place.bridge.height}
    /\ tickLog.place.ramp = IF MatchingRamps = {} THEN NoRampInfo
                            ELSE RampVerdict(FirstMatch).info
    /\ BarrierSignalled => tickLog.place.bridge.sideCollision
    /\ (tickLog.place.ramp.sideCollision /\ ~tickLog.place.bridge.sideCollision)
         => SideHandled(tickLog.place.ramp.normal)
    /\ (tickLog.place.bridge.sideCollision /\ ~tickLog.place.ramp.sideCollision)
         => SideHandled(tickLog.place.bridge.normal)
    /\ (tickLog.place.ramp.sideCollision /\ tickLog.place.bridge.sideCollision)
         => tickLog.beforeUpdate.damage >= tickLog.worldBefore.damage

\* a tick on the overpass with the car up on the deck and against its
\* barrier: the bridge height is the largest of the three heights, the
\* impact damages the car and the car bounces off
C17_Witness ==
  /\ GroundTicked
  /\ BarrierSignalled
  /\ tickLog.place.bridge.sideCollision
  /\ tickLog.place.terrain > 0
  /\ tickLog.place.bridge.height > tickLog.place.terrain
  /\ upd.ground.height = tickLog.place.bridge.height
  /\ tickLog.beforeUpdate.damage > tickLog.worldBefore.damage
  /\ tickLog.beforeUpdate.sim.velocity # tickLog.simBefore.velocity

\* a tick where two ramps answer differently and the first one decides
C17_FirstRampDecides ==
  /\ GroundTicked
  /\ \E j \in MatchingRamps : j # FirstMatch /\ RampVerdict(j) # RampVerdict(FirstMatch)
  /\ tickLog.place.ramp = RampVerdict(FirstMatch).info
  /\ upd.ground.height = tickLog.place.ramp.height
  /\ tickLog.place.ramp.height > 0

\* a tick against the side barrier of a ramp
C17_RampSideHit ==
  /\ GroundTicked
  /\ tickLog.place.ramp.sideCollision
  /\ tickLog.beforeUpdate.damage > tickLog.worldBefore.damage
  /\ tickLog.beforeUpdate.sim.velocity # tickLog.simBefore.velocity

\* ------------------------------------------------------------------------
\* CarSim.update tick after tick with the controls held, on flat on-track
\* ground: coasting down from 20 m/s, full throttle from rest, and at rest
\* ------------------------------------------------------------------------
MaxRunTicks == 2400

Released == [throttle |-> 0, brake |-> 0, handbrake |-> 0, steer |-> 0]

FullThrottle == [throttle |-> ONE, brake |-> 0, handbrake |-> 0, steer |-> 0]

\* the runs: the controls held and the vehicle the run starts from (the
\* fields of a new CarSim, the velocity written or a 3x boost of 2.5 s
\* activated; the start pose of the game)
Runs ==
  { [name |-> "coast", input |-> Released, landing |-> 0,
     start |-> [NewCarSim EXCEPT !.velocity = Vec(0, 0, 20 * ONE)]],
    [name |-> "throttle", input |-> FullThrottle, landing |-> 0,
     start |-> NewCarSim],
    [name |-> "throttle", input |-> FullThrottle, landing |-> 0,
     start |-> ActivateNitroBoost(NewCarSim, SpeedPadBoostSeconds, 3 * ONE)],
    [name |-> "rest", input |-> Released, landing |-> 0, start |-> NewCarSim],
    [name |-> "rest", input |-> Released, landing |-> 0, start |-> StartSim] }

InitRun ==
  /\ course \in Runs
  /\ sim = course.start
  /\ params \in ParamSets
  /\ upd = NoUpdate
  /\ nitroLog = NoNitroCall
  /\ arranged = FALSE
  /\ carTicks = 0
  /\ query = NoQuery
  /\ jump = NoJump
  /\ InitLoop
  /\ InitLapState
  /\ gameInput = NoInput

\* sim.update(dt, input, surface, ground) with the controls of the run
RunTick ==
  /\ carTicks < MaxRunTicks
  /\ SetCar(Update(sim, params, StepDt, course.input, OnTrackSurface, FlatGround))
  /\ carTicks' = carTicks + 1
  /\ UNCHANGED <<params, nitroLog, arranged>>
  /\ UNCHANGED NotCar

\* the count of the ticks moves on: what a tick does to carTicks
Ticking == carTicks < MaxRunTicks /\ carTicks' = carTicks + 1

\* the fixed timestep keeps calling update(): update() returns for every
\* vehicle and input, so a tick is possible exactly when Ticking is, and
\* every tick is a Ticking step
SpecRun == InitRun /\ [][RunTick]_vars /\ WF_carTicks(Ticking)

CoastRun == course.name = "coast"

ThrottleRun == course.name = "throttle"

RestRun == course.name = "rest"

\* a tick of the run with the controls released that started at 20 m/s
CoastTick == CoastRun /\ carTicks' = carTicks + 1

\* C18 as stated: coasting down from forward speed 20 with throttle and brake
\* released, the forward speed strictly decreases from tick to tick until it
\* reaches 0, then stays at 0, and is never negative
C18_DragToZero ==
  [][CoastTick =>
       IF ForwardSpeedMps(sim) = 0 THEN ForwardSpeedMps(sim') = 0
       ELSE /\ ForwardSpeedMps(sim') < ForwardSpeedMps(sim)
            /\ ForwardSpeedMps(sim') >= 0]_vars

\* what update() does instead: the forward speed strictly decreases from tick
\* to tick while it is above 0.1 m/s and stays positive; once it is 0.1 m/s
\* or less drag no longer acts and the speed keeps its value
C18_DragToCutoff ==
  /\ [](CoastRun => ForwardSpeedMps(sim) > 0)
  /\ [][CoastTick =>
          IF ForwardSpeedMps(sim) > Fixed(1, 10)
          THEN ForwardSpeedMps(sim') < ForwardSpeedMps(sim)
          ELSE ForwardSpeedMps(sim') = ForwardSpeedMps(sim)]_vars

\* the car has coasted down to the cut-off and ticks on at the speed left
C18_Witness ==
  /\ CoastRun
  /\ carTicks = MaxRunTicks
  /\ upd.branch = "grounded"
  /\ ForwardSpeedMps(sim) > 0
  /\ ForwardSpeedMps(sim) <= Fixed(1, 10)
  /\ DragSigned(params, ForwardSpeedMps(sim)) = 0
  /\ sim.position.z > course.start.position.z

\* the speed at which drag and rolling resistance balance the engine at full
\* throttle: drag * v^2 + rolling * v = engineAccel
BalanceSpeed(p) ==
  Div(Sqrt(Mul(p.rolling, p.rolling) + 4 * Mul(p.drag, p.engineAccel)) - p.rolling,
      2 * p.drag)

\* speeds closer than 0.02 m/s
Near(a, b) == Abs(a - b) <= Fixed(2, 100)

\* |velocity| is within the top speed of the tick: maxSpeed, or 1.5 * maxSpeed
\* while nitro is active
WithinMaxSpeed ==
  ThrottleRun => SpeedMps(sim) <= MaxSpeedOf(params, sim.nitroBoostMultiplier)

AtMaxSpeed ==
  ThrottleRun => Near(SpeedMps(sim), MaxSpeedOf(params, sim.nitroBoostMultiplier))

AtSettlingSpeed ==
  ThrottleRun => Near(SpeedMps(sim), Min(params.maxSpeed, BalanceSpeed(params)))

C19_AtBoostedMaxSpeed ==
  /\ ThrottleRun
  /\ sim.nitroBoostMultiplier > ONE
  /\ Near(SpeedMps(sim), Mul(params.maxSpeed, Fixed(3, 2)))

\* C20: from rest with throttle, brake, handbrake and steer all zero on flat
\* on-track ground, after any number of ticks the velocity is still (0,0,0),
\* the position is unchanged and the vehicle is still Grounded
C20_RestStays ==
  RestRun =>
    /\ sim.velocity = Vec(0, 0, 0)
    /\ sim.position = course.start.position
    /\ ~sim.isAirborne
    /\ upd.branch \in {"none", "grounded"}

\* the car of the game at its start pose after a long row of ticks at rest
C20_Witness ==
  /\ RestRun
  /\ course.start = StartSim
  /\ carTicks = MaxRunTicks
  /\ upd.branch = "grounded"
  /\ upd.input = Released
  /\ sim.velocity = Vec(0, 0, 0)
  /\ sim.position = StartSim.position

\* ------------------------------------------------------------------------
\* CarSim.update called with controls inside and outside their ranges
\* ------------------------------------------------------------------------
MaxClampTicks == 1

\* throttle, brake and handbrake are meant to lie in [0, 1], steer in [-1, 1]
Clamp01(x) == Max(0, Min(ONE, x))

ClampInput(input) ==
  [ throttle  |-> Clamp01(input.throttle),
    brake     |-> Clamp01(input.brake),
    handbrake |-> Clamp01(input.handbrake),
    steer     |-> Max(-ONE, Min(ONE, input.steer)) ]

\* controls a caller of update() can pass: in range, above and below
\* (steer 1.5 is what Game.ts passes at full lock with the steering
\* sensitivity at its upper limit 1.5)
ClampInputs ==
  [ throttle  : {-ONE, 0, ONE, 2 * ONE},
    brake     : {-ONE, 0, ONE, 2 * ONE},
    handbrake : {0, 2 * ONE},
    steer     : {-(2 * ONE), 0, Fixed(1, 2), Fixed(3, 2)} ]

\* on the straight at 20 m/s, in flight, and at rest
ClampStarts == CarStarts \cup {NewCarSim}

InitClamp ==
  /\ sim \in ClampStarts
  /\ params = GameParams
  /\ upd = NoUpdate
  /\ nitroLog = NoNitroCall
  /\ arranged = TRUE
  /\ carTicks = 0
  /\ InitNotCar

\* one update(); the state it started from is kept for comparison
ClampTick(input) ==
  /\ carTicks < MaxClampTicks
  /\ SetCar(Update(sim, params, StepDt, input, OnTrackSurface, FlatGround))
  /\ carTicks' = carTicks + 1
  /\ query' = [made |-> TRUE, args |-> [before |-> sim, input |-> input]]
  /\ UNCHANGED <<params, nitroLog, arranged, course, jump>>
  /\ UNCHANGED <<loopVars, gameVars>>

NextClamp == \E input \in ClampInputs : ClampTick(input)

SpecClamp == InitClamp /\ [][NextClamp]_vars

\* the vehicle state the last tick would have produced from the given controls
ClampTickWith(input) ==
  Update(query.args.before, params, StepDt, input, OnTrackSurface, FlatGround).sim

InRange(input) == input = ClampInput(input)

\* C21: a tick given throttle, brake or handbrake outside [0,1] or steer
\* outside [-1,1] produces the same next vehicle state as the tick given the
\* values clamped into range.
C21_ClampedAtUse ==
  query.made => sim = ClampTickWith(ClampInput(query.args.input))

\* what update() does: steer is clamped where it is used, in both branches;
\* throttle, brake and handbrake are used as given
C21_SteerClamped ==
  query.made =>
    sim = ClampTickWith([query.args.input EXCEPT
                           !.steer = Max(-ONE, Min(ONE, @))])

\* a Grounded tick with throttle 2 and everything else in range: the car is
\* faster than the tick at throttle 1 leaves it
C21_Witness ==
  /\ query.made
  /\ upd.branch = "grounded"
  /\ query.args.input = [throttle |-> 2 * ONE, brake |-> 0, handbrake |-> 0, steer |-> 0]
  /\ ForwardSpeedMps(sim) >
       ForwardSpeedMps(ClampTickWith(ClampInput(query.args.input)))

\* a tick with steer 1.5 and everything else in range, Grounded or Airborne:
\* the same vehicle state as with steer 1
C21_SteerWitness ==
  /\ query.made
  /\ query.args.input = [throttle |-> ONE, brake |-> 0, handbrake |-> 0,
                         steer |-> Fixed(3, 2)]
  /\ sim = ClampTickWith(ClampInput(query.args.input))
  /\ sim.steerSmoothed > 0

\* ------------------------------------------------------------------------
\* RampSystem.addRampOnTrack (track/Ramps): placing ramps along a track
\* ------------------------------------------------------------------------
MaxPlacements == 2

\* Vector3.Lerp(a, b, t): a + (b - a) * t
Lerp(a, b, t) ==
  [x |-> FAdd(a.x, FMul(FSub(b.x, a.x), t)),
   y |-> FAdd(a.y, FMul(FSub(b.y, a.y), t)),
   z |-> FAdd(a.z, FMul(FSub(b.z, a.z), t))]

\* b.subtract(a).normalize(): scaled by 1 / length
DirectionBy(dx, dy, dz, inv) == [x |-> FMul(dx, inv), y |-> FMul(dy, inv), z |-> FMul(dz, inv)]

Direction(a, b) ==
  DirectionBy(FSub(b.x, a.x), FSub(b.y, a.y), FSub(b.z, a.z),
              FDiv(FInt(1), Distance(b, a)))

\* addRampOnTrack: the loop over the segments from segment i on (points are
\* counted from 1 here); result: rampPos and rampDir
RECURSIVE PlaceFrom(_, _, _, _)
PlaceFrom(track, targetDist, i, accum) ==
  IF i > Len(track.centerline) - 1
  THEN [pos |-> track.centerline[1], dir |-> Vec(FZero, FZero, FInt(1))]
  ELSE IF FLessEq(targetDist,
                  FAdd(accum, Distance(track.centerline[i], track.centerline[i + 1])))
       THEN [pos |-> Lerp(track.centerline[i], track.centerline[i + 1],
                          FDiv(FSub(targetDist, accum),
                               Distance(track.centerline[i], track.centerline[i + 1]))),
             dir |-> Direction(track.centerline[i], track.centerline[i + 1])]
       ELSE PlaceFrom(track, targetDist, i + 1,
                      FAdd(accum, Distance(track.centerline[i], track.centerline[i + 1])))

\* the RampInfo pushed; rotation is Math.atan2(rampDir.x, rampDir.z)
PlacedRamp(place, width, length, height) ==
  [position |-> place.pos, rampDir |-> place.dir, width |-> width,
   length |-> length, height |-> height]

\* addRampOnTrack(track, trackProgress, width, length, height); result: the
\* ramps array afterwards and whether the call threw (it has no throw)
AddRampOnTrack(ramps, track, trackProgress, width, length, height) ==
  [ ramps |-> Append(ramps,
                     PlacedRamp(PlaceFrom(track, FMul(trackProgress, track.totalLength),
                                          1, FZero),
                                width, length, height)),
    threw |-> FALSE ]

\* fractions of the lap: the two of createScene, the ends, and outside [0,1]
Progresses ==
  { FDec(15, 100), FDec(65, 100), FZero, FInt(1), FDec(101, 100), FInt(2),
    FNeg(FDec(1, 100)), FNeg(FDec(1, 2)) }

InitPlace ==
  InitQuery({[track |-> name, ramps |-> <<>>, calls |-> 0]
               : name \in {"straight", "rectangle", "triangle"}})

\* one call of addRampOnTrack on the ramp system built so far
Placed(trackProgress, answer) ==
  /\ query' = [made |-> TRUE,
               args |-> [track |-> query.args.track, ramps |-> answer.ramps,
                         calls |-> query.args.calls + 1],
               before |-> query.args.ramps,
               trackProgress |-> trackProgress,
               answer |-> answer]
  /\ UNCHANGED <<carVars, course, jump, loopVars, gameVars>>

AskAddRamp(trackProgress) ==
  /\ query.args.calls < MaxPlacements
  /\ Placed(trackProgress,
            AddRampOnTrack(query.args.ramps, TrackNamed(query.args.track),
                           trackProgress, FInt(8), FInt(14), FDec(15, 10)))

NextPlace == \E trackProgress \in Progresses : AskAddRamp(trackProgress)

SpecPlace == InitPlace /\ [][NextPlace]_vars

OutOfRange(trackProgress) ==
  FLess(trackProgress, FZero) \/ FLess(FInt(1), trackProgress)

\* C22: placing a ramp at a track-arclength fraction outside [0,1] fails at
\* construction time with an error and registers no ramp.
C22_FailsFast ==
  (query.made /\ OutOfRange(query.trackProgress)) =>
    /\ query.answer.threw
    /\ query.answer.ramps = query.before

\* what addRampOnTrack does: it never throws and registers one ramp per call;
\* a fraction above 1 puts the ramp at centerline[0] facing +z, a fraction
\* below 0 puts it on the line of the first segment behind centerline[0]
C22_PlacedAnyway ==
  query.made =>
    /\ ~query.answer.threw
    /\ Len(query.answer.ramps) = Len(query.before) + 1
    /\ FLess(FInt(1), query.trackProgress) =>
         /\ query.answer.ramps[Len(query.answer.ramps)].position
              = TrackNamed(query.args.track).centerline[1]
         /\ query.answer.ramps[Len(query.answer.ramps)].rampDir
              = Vec(FZero, FZero, FInt(1))
    /\ FLess(query.trackProgress, FZero) =>
         query.answer.ramps[Len(query.answer.ramps)].rampDir
           = Direction(TrackNamed(query.args.track).centerline[1],
                       TrackNamed(query.args.track).centerline[2])

\* addRampOnTrack(track, 2, ...) on the rectangle: a ramp is registered at
\* the first point of the centerline
C22_Witness ==
  /\ query.made
  /\ query.args.track = "rectangle"
  /\ query.trackProgress = FInt(2)
  /\ ~query.answer.threw
  /\ Len(query.answer.ramps) = Len(query.before) + 1
  /\ query.answer.ramps[Len(query.answer.ramps)].position = Tenths(0, 0)

\* addRampOnTrack(track, -0.5, ...) on the straight (0,0,0)-(0,0,100): a ramp
\* is registered 50 m behind the first point
C22_BehindStart ==
  /\ query.made
  /\ query.args.track = "straight"
  /\ query.trackProgress = FNeg(FDec(1, 2))
  /\ query.answer.ramps[Len(query.answer.ramps)].position = Tenths(0, -500)

\* ------------------------------------------------------------------------
\* Two runs of the game fed the same ticks under different frame pacing:
\* the first run is the game itself, the second is kept in course.twin and
\* makes each tick after the first run has made it
\* ------------------------------------------------------------------------
MaxTwinTicks == 2

MaxTwinClock == 3

\* the time between two looks at the clock: 3 s
TwinElapseMs == 3 * SecondMs

\* tickSim on the second run, step by step as TickSim; T = the second run's
\* car, world, performance.now() and lap state
TwinReset(T, reset, w, b, L1) ==
  [ sim   |-> IF reset THEN ResetSim(b.sim) ELSE b.sim,
    world |-> [damage |-> IF reset THEN 0 ELSE b.damage,
               collisionCooldown |-> b.collisionCooldown,
               speedPadCooldown |-> w.speedPadCooldown],
    clock          |-> T.clock,
    lapStartMs     |-> IF reset THEN T.clock ELSE L1.lapStartMs,
    lastS          |-> IF reset THEN 0 ELSE L1.lastS,
    laps           |-> IF reset THEN 0 ELSE L1.laps,
    bestLapSeconds |-> IF reset THEN Null ELSE L1.bestLapSeconds ]

TwinLap(T, reset, place, w, b) ==
  TwinReset(T, reset, w, b,
            LapStep([lapStartMs |-> T.lapStartMs, lastS |-> T.lastS, laps |-> T.laps,
                     bestLapSeconds |-> T.bestLapSeconds],
                    place.s, ForwardSpeedMps(b.sim), T.clock))

TwinBarrier(T, reset, dt, place, w, s1) ==
  TwinLap(T, reset, place, w,
          Barrier(s1, w.damage, T.world.collisionCooldown, dt,
                  CheckBarrierCollision(place.barrier, s1)))

TwinUpdate(T, reset, dt, place, w, r) ==
  TwinBarrier(T, reset, dt, place, w, WorldLimit(r.sim, place.distance, place.normal))

TwinGround(T, input, dt, place, w) ==
  TwinUpdate(T, input.resetPressed, dt, place, w,
             Update(w.sim, params, dt,
                    [throttle  |-> input.throttle,
                     brake     |-> input.brake,
                     handbrake |-> input.handbrake,
                     steer     |-> Mul(input.steer, steeringSensitivity)],
                    IF place.onTrack THEN OnTrackSurface ELSE OffTrackSurface(params),
                    GroundInfo(place.terrain, place.ramp, place.bridge)))

TwinTickSim(T, input, dt, place) ==
  TwinGround(T, input, dt, place,
             SpeedPad(SideCollision(SideCollision([sim |-> T.sim, damage |-> T.world.damage],
                                                  place.ramp),
                                    place.bridge),
                      T.world.speedPadCooldown, dt, place.onSpeedPad))

\* the car on the start line at 20 m/s along the first straight
TwinStart == [StartSim EXCEPT !.velocity = Scale(ForwardVec(StartYaw), 20 * ONE)]

\* both runs start in the same state
InitTwin ==
  /\ sim = TwinStart
  /\ params = GameParams
  /\ upd = NoUpdate
  /\ nitroLog = NoNitroCall
  /\ arranged = TRUE
  /\ carTicks = 0
  /\ query = NoQuery
  /\ jump = NoJump
  /\ InitLoop
  /\ InitLapState
  /\ gameInput \in HeldInputs
  /\ course = [twin |-> [sim |-> TwinStart, world |-> NewWorld, clock |-> 0,
                         lapStartMs |-> 0, lastS |-> 0, laps |-> 0,
                         bestLapSeconds |-> Null],
               ticks |-> 0]

\* where the cars are found: late in the lap, on the start straight, and
\* head-on against a barrier
TwinPlaces ==
  { LateInLap, StartStraight,
    [StartStraight EXCEPT !.barrier = [collided |-> TRUE, normal |-> Vec(ONE, 0, 0),
                                       penetration |-> Fixed(1, 4)]] }

\* a tick of the first run, once the second run has caught up
TwinTick(place) ==
  /\ carTicks < MaxTwinTicks
  /\ course.ticks = carTicks
  /\ TickSim(StepDt, place)
  /\ UNCHANGED <<loopVars, clock>>

\* the same tick in the second run: same dt, same input, same place
TwinFollow ==
  /\ course.ticks < carTicks
  /\ course' = [twin  |-> TwinTickSim(course.twin,
                                      [gameInput EXCEPT !.resetPressed = tickLog.reset],
                                      tickLog.dt, tickLog.place),
                ticks |-> carTicks]
  /\ UNCHANGED <<carVars, jump, query, loopVars, gameVars>>

\* performance.now() of the first run moves on between two ticks: a slow frame
TwinElapse ==
  /\ course.ticks = carTicks
  /\ clock < MaxTwinClock * TwinElapseMs
  /\ clock' = clock + TwinElapseMs
  /\ UNCHANGED <<carVars, jumpVars, loopVars, gameInput, lapStartMs, lastS, laps,
                 bestLapSeconds, lapTimeSeconds, lapLog, tickLog, world>>

\* performance.now() of the second run moves on between two ticks
TwinElapseOther ==
  /\ course.ticks = carTicks
  /\ course.twin.clock < MaxTwinClock * TwinElapseMs
  /\ course' = [course EXCEPT !.twin.clock = @ + TwinElapseMs]
  /\ UNCHANGED <<carVars, jump, query, loopVars, gameVars>>

\* the same reset request reaches both runs
TwinRequestReset ==
  /\ carTicks > 0
  /\ course.ticks = carTicks
  /\ RequestReset

NextTwin ==
  \/ \E place \in TwinPlaces : TwinTick(place)
  \/ TwinFollow
  \/ TwinElapse
  \/ TwinElapseOther
  \/ TwinRequestReset

SpecTwin == InitTwin /\ [][NextTwin]_vars

\* both runs have made the same ticks
InStep == course.ticks = carTicks

SameVehicle == sim = course.twin.sim /\ world = course.twin.world

SameLaps == laps = course.twin.laps /\ bestLapSeconds = course.twin.bestLapSeconds

\* C23: two runs started in the same state and fed the same sequence of
\* inputs end every tick with identical vehicle state and identical lap state
\* (lap count, best lap), independent of wall-clock time and frame pacing.
C23_Deterministic == InStep => (SameVehicle /\ SameLaps)

\* what holds: the vehicle, the damage and the cooldowns of the two runs are
\* identical after every tick whatever the clocks read
C23_VehicleDeterministic == InStep => SameVehicle

\* the same ticks, paced differently: the first run has counted a lap that the
\* second, still within 5 s of its lap start, has not
C23_Witness ==
  /\ InStep
  /\ tickLog.ran
  /\ SameVehicle
  /\ laps = 1
  /\ course.twin.laps = 0

\* the same ticks, paced differently: both runs counted the lap, with
\* different best lap times
C23_BestLapDiffers ==
  /\ InStep
  /\ tickLog.ran
  /\ SameVehicle
  /\ laps = 1
  /\ course.twin.laps = 1
  /\ bestLapSeconds # course.twin.bestLapSeconds

\* ------------------------------------------------------------------------
\* tickSim at the ramps, the bridge and the overpass with a track barrier
\* in reach: the order of the steps of a tick
\* ------------------------------------------------------------------------
\* a track barrier met head-on by a car driving down the start straight
HeadOn == [collided |-> TRUE, normal |-> Vec(ONE, 0, 0), penetration |-> Fixed(1, 4)]

OrderPlaces(k) ==
  IF k < StraightTicks THEN {StartStraight}
  ELSE IF k >= MaxGroundTicks THEN {}
  ELSE { [GroundPlace(query.args, spot, 0, sim) EXCEPT !.barrier = c] :
           spot \in SpotsOf(query.args), c \in {NoContact, HeadOn} }

NextOrder == \E place \in OrderPlaces(carTicks) : GroundTick(place)

SpecOrder == InitGround /\ [][NextOrder]_vars

\* the input object and the surface tickSim passed to sim.update in the last tick
TickInput ==
  [throttle  |-> gameInput.throttle, brake |-> gameInput.brake,
   handbrake |-> gameInput.handbrake,
   steer     |-> Mul(gameInput.steer, steeringSensitivity)]

TickSurface == IF tickLog.place.onTrack THEN OnTrackSurface ELSE OffTrackSurface(params)

\* sim.update of the last tick, made on the vehicle the side collisions and
\* the speed pad left behind
TickUpdated ==
  Update(tickLog.beforeUpdate.sim, params, tickLog.dt, TickInput, TickSurface,
         GroundInfo(tickLog.place.terrain, tickLog.place.ramp, tickLog.place.bridge))

\* C24 as stated: no collision correction of a tick, barrier or ramp/bridge
\* edge, is applied before that tick's vehicle update - the update starts
\* from the velocity the tick started with.
C24_OrderAsStated ==
  tickLog.ran => tickLog.beforeUpdate.sim.velocity = tickLog.simBefore.velocity

\* C24 amended: within every tick the steps run in this order: track
\* projection and elevation query (on the position the tick starts with), the
\* ramp and the bridge side-collision correction of the velocity, the speed
\* pad, the vehicle update, the world limit, the barrier correction to
\* position and velocity, the lap update (on the arclength of the projection
\* made first and the forward speed the barrier step left), the reset; the
\* barrier correction is never applied before that tick's vehicle update.
C24_Order ==
  tickLog.ran =>
    /\ tickLog.beforeUpdate =
         SpeedPad(SideCollision(SideCollision([sim |-> tickLog.simBefore,
                                               damage |-> tickLog.worldBefore.damage],
                                              tickLog.place.ramp),
                                tickLog.place.bridge),
                  tickLog.worldBefore.speedPadCooldown, tickLog.dt,
                  tickLog.place.onSpeedPad)
    /\ upd = TickUpdated.info
    /\ tickLog.beforeBarrier =
         WorldLimit(TickUpdated.sim, tickLog.place.distance, tickLog.place.normal)
    /\ tickLog.afterBarrier.sim =
         Barrier(tickLog.beforeBarrier, tickLog.beforeUpdate.damage,
                 tickLog.worldBefore.collisionCooldown, tickLog.dt,
                 CheckBarrierCollision(tickLog.place.barrier, tickLog.beforeBarrier)).sim
    /\ tickLog.forwardSpeed = ForwardSpeedMps(tickLog.afterBarrier.sim)
    /\ tickLog.lastSAfter = tickLog.place.s
    /\ ~tickLog.reset => sim = tickLog.afterBarrier.sim

\* a tick with a side collision and a barrier collision: the velocity is
\* corrected before the vehicle update and again after it
C24_Witness ==
  /\ tickLog.ran
  /\ tickLog.place.ramp.sideCollision \/ tickLog.place.bridge.sideCollision
  /\ tickLog.beforeUpdate.sim.velocity # tickLog.simBefore.velocity
  /\ tickLog.beforeBarrier.velocity # tickLog.beforeUpdate.sim.velocity
  /\ tickLog.afterBarrier.applied
  /\ tickLog.afterBarrier.sim.velocity # tickLog.beforeBarrier.velocity
  /\ tickLog.afterBarrier.sim.position # tickLog.beforeBarrier.position
  /\ sim = tickLog.afterBarrier.sim

\* ------------------------------------------------------------------------
\* The response to a ramp or bridge side collision (checked under SpecOrder)
\* ------------------------------------------------------------------------
\* a velocity with its component along n reflected with the given
\* restitution and the whole scaled by the given friction, if it points into n
Reflected(v, n, restitution, friction) ==
  IF Dot(v, n) < 0
  THEN Scale(Add(v, Scale(n, Mul(-Dot(v, n), ONE + restitution))), friction)
  ELSE v

\* the velocity after the side collisions of the last tick, each answered
\* with the given restitution and friction: the ramp's, then the bridge's
AfterSides(restitution, friction) ==
  Reflected(IF tickLog.place.ramp.sideCollision
            THEN Reflected(tickLog.simBefore.velocity, tickLog.place.ramp.normal,
                           restitution, friction)
            ELSE tickLog.simBefore.velocity,
            IF tickLog.place.bridge.sideCollision THEN tickLog.place.bridge.normal
            ELSE Vec(0, 0, 0),
            restitution, friction)

SideHit ==
  tickLog.ran /\ (tickLog.place.ramp.sideCollision \/ tickLog.place.bridge.sideCollision)

\* the normal of the side collision of the last tick (the ramp's if both)
SideNormal ==
  IF tickLog.place.ramp.sideCollision THEN tickLog.place.ramp.normal
  ELSE tickLog.place.bridge.normal

\* C25 as stated: a ramp or bridge side collision gets the same response as
\* a barrier collision: the position is pushed out along the collision normal
\* by penetration + epsilon (0.1), and when the velocity was moving into the
\* obstacle its normal component is reflected with restitution 0.3 and the
\* whole velocity is scaled by friction 0.7.
C25_SameAsBarrier ==
  SideHit =>
    /\ Dot([x |-> tickLog.beforeUpdate.sim.position.x - tickLog.simBefore.position.x,
            y |-> tickLog.beforeUpdate.sim.position.y - tickLog.simBefore.position.y,
            z |-> tickLog.beforeUpdate.sim.position.z - tickLog.simBefore.position.z],
           SideNormal) >= Fixed(1, 10)
    /\ tickLog.beforeUpdate.sim.velocity = AfterSides(Fixed(3, 10), Fixed(7, 10))

\* C25 amended: a ramp or bridge side collision leaves the position as it
\* is (getHeightAt reports no penetration depth), and when the velocity was
\* moving into the obstacle its normal component is reflected with
\* restitution 0.5 and the whole velocity is scaled by 0.6; a barrier
\* collision pushes the position out by penetration + 0.1 and uses
\* restitution 0.3 and friction 0.7.
C25_SideResponse ==
  /\ SideHit =>
       /\ tickLog.beforeUpdate.sim.position = tickLog.simBefore.position
       /\ tickLog.beforeUpdate.sim.velocity = AfterSides(Fixed(1, 2), Fixed(6, 10))
  /\ (tickLog.ran /\ tickLog.afterBarrier.applied) =>
       /\ tickLog.afterBarrier.sim.position =
            Add(tickLog.beforeBarrier.position,
                Scale(tickLog.place.barrier.normal,
                      tickLog.place.barrier.penetration + Fixed(1, 10)))
       /\ tickLog.afterBarrier.sim.velocity =
            Reflected(tickLog.beforeBarrier.velocity, tickLog.place.barrier.normal,
                      Fixed(3, 10), Fixed(7, 10))

\* a car moving into the side barrier of a ramp or a bridge: it keeps its
\* position and leaves with a velocity other than the barrier response's
C25_Witness ==
  /\ SideHit
  /\ Dot(tickLog.simBefore.velocity, SideNormal) < 0
  /\ tickLog.beforeUpdate.sim.position = tickLog.simBefore.position
  /\ tickLog.beforeUpdate.sim.velocity = AfterSides(Fixed(1, 2), Fixed(6, 10))
  /\ tickLog.beforeUpdate.sim.velocity # AfterSides(Fixed(3, 10), Fixed(7, 10))
  /\ tickLog.afterBarrier.applied

\* ------------------------------------------------------------------------
\* The normal of a ramp side collision, for ramps lying along x and along z
\* ------------------------------------------------------------------------
\* a third ramp on the west straight, where the centerline runs along +z:
\* addRampOnTrack gives it rotation atan2(0, 1) = 0
WestRamp == RampInfoOf(Vec(-(halfX * ONE), 0, 0), Vec(0, 0, ONE))

SideRamps == <<SceneRamps[1], SceneRamps[2], WestRamp>>

\* queries around each ramp: world offsets from its position (hundredths of
\* a metre), the car heading with the ramp or against it
SideQueries ==
  { [ramp |-> k,
     pos |-> Vec(SideRamps[k].position.x + Fixed(dx, 100), Fixed(55, 100),
                 SideRamps[k].position.z + Fixed(dz, 100)),
     carYaw |-> SideRamps[k].rotation + Degrees(heading)] :
      k \in 1..Len(SideRamps),
      dx \in {-600, -430, -300, 0, 300, 430, 600},
      dz \in {-600, -430, -300, 0, 300, 430, 600},
      heading \in {0, 180} }

InitSide == InitQuery(SideQueries)

\* ramps.getHeightAt(pos, carYaw) on the three ramps
AskSideNormal ==
  /\ ~query.made
  /\ query' = [made |-> TRUE, args |-> query.args,
               answer |-> GetHeightAt(SideRamps, query.args.pos, query.args.carYaw)]
  /\ UNCHANGED <<carVars, course, jump, loopVars, gameVars>>

SpecSide == InitSide /\ [][AskSideNormal]_vars

SideRamp == SideRamps[query.args.ramp]

SideLocal == RampLocal(SideRamp, query.args.pos)

\* the outward normal of the face that was hit, in the local space of the
\* ramp: across the ramp for a side barrier, along it for the front
LocalOutward ==
  IF Abs(SideLocal.x) > SideRamp.width \div 2
  THEN Vec(IF SideLocal.x > 0 THEN ONE ELSE -ONE, 0, 0)
  ELSE Vec(0, 0, ONE)

\* a local direction in world coordinates: the inverse of the rotation
\* getHeightAt applies to (dx, dz)
RampWorld(ramp, v) ==
  Vec(Mul(v.x, Cos(-ramp.rotation)) + Mul(v.z, Sin(-ramp.rotation)), 0,
      Mul(v.z, Cos(-ramp.rotation)) - Mul(v.x, Sin(-ramp.rotation)))

NearVec(u, v) == Near(u.x, v.x) /\ Near(u.y, v.y) /\ Near(u.z, v.z)

SideReported == query.made /\ query.answer.sideCollision

\* C26: whenever RampSystem.getHeightAt reports sideCollision, the normal it
\* returns, which the tick uses as the world-space bounce normal, is the
\* outward normal of the ramp side that was hit expressed in world
\* coordinates, for every ramp rotation (not only rotation 0).
C26_WorldNormal ==
  SideReported => NearVec(query.answer.normal, RampWorld(SideRamp, LocalOutward))

\* what getHeightAt does: the normal returned is the outward normal in the
\* local space of the ramp, which is the world-space one for rotation 0 only
C26_LocalNormal ==
  SideReported =>
    /\ query.answer.normal = LocalOutward
    /\ SideRamp.rotation = 0 =>
         NearVec(query.answer.normal, RampWorld(SideRamp, LocalOutward))

\* the side barrier of the first ramp of the scene (rotation -pi/2, the
\* track runs along -x), hit from the side z < ramp z: the normal returned
\* is (1, 0, 0), along the track; across the track the car moves freely
C26_Witness ==
  /\ SideReported
  /\ query.args.ramp = 1
  /\ Abs(SideLocal.x) > SideRamp.width \div 2
  /\ query.answer.normal = Vec(ONE, 0, 0)
  /\ NearVec(RampWorld(SideRamp, LocalOutward), Vec(0, 0, -ONE))

\* the side barrier of the ramp with rotation 0: local and world normal agree
C26_RotationZero ==
  /\ SideReported
  /\ SideRamp.rotation = 0
  /\ Abs(SideLocal.x) > SideRamp.width \div 2
  /\ query.answer.normal = RampWorld(SideRamp, LocalOutward)

\* a car driving up a ramp of the scene the wrong way: the front normal
\* returned is (0, 0, 1), across the track
C26_FrontHit ==
  /\ SideReported
  /\ query.args.ramp = 2
  /\ Abs(SideLocal.x) <= SideRamp.width \div 2
  /\ query.answer.normal = Vec(0, 0, ONE)
  /\ ~NearVec(query.answer.normal, RampWorld(SideRamp, LocalOutward))


\* ------------------------------------------------------------------------
\* CarSim.update around the reverse threshold and the reverse speed limit
\* ------------------------------------------------------------------------
MaxReverseTicks == 2

\* the Game.ts tuning, and an engine strong enough to reverse faster than
\* drag alone allows (reverse terminal speed of the Game.ts tuning: 13.9 m/s)
ReverseParams == {GameParams, [GameParams EXCEPT !.engineAccel = 30 * ONE]}

\* a car at 55 m/s under a speed-pad boost, thrown back by a head-on side
\* collision (tickSim, "Bounce off the side"): 16.5 m/s backwards
ThrownBack ==
  [ActivateNitroBoost(NewCarSim, SpeedPadBoostSeconds, 3 * ONE)
     EXCEPT !.velocity = SideBounce(Vec(0, 0, 55 * ONE), Vec(0, 0, -ONE),
                                    -(55 * ONE))]

\* forward speeds on both sides of the threshold 2 and of the limit -15
ReverseStarts ==
  { [NewCarSim EXCEPT !.velocity = Vec(0, 0, vF)] :
      vF \in {0, Fixed(199, 100), 2 * ONE, 3 * ONE, -(8 * ONE),
              -Fixed(1499, 100), -(15 * ONE), -Fixed(1501, 100)} }
  \cup {ThrownBack}

\* brake released, half and full (the gamepad trigger is analogue), with
\* and without throttle
ReverseInputs ==
  [throttle : {0, ONE}, brake : {0, Fixed(1, 2), ONE}, handbrake : {0}, steer : {0}]

InitReverse ==
  /\ sim \in ReverseStarts
  /\ params \in ReverseParams
  /\ upd = NoUpdate
  /\ nitroLog = NoNitroCall
  /\ arranged = TRUE
  /\ carTicks = 0
  /\ InitNotCar

\* one update() on flat ground; the state it started from is kept
ReverseTick(input, surface) ==
  /\ carTicks < MaxReverseTicks
  /\ SetCar(Update(sim, params, StepDt, input, surface, FlatGround))
  /\ carTicks' = carTicks + 1
  /\ query' = [made |-> TRUE,
               args |-> [before |-> sim, input |-> input, surface |-> surface]]
  /\ UNCHANGED <<params, nitroLog, arranged, course, jump>>
  /\ UNCHANGED <<loopVars, gameVars>>

NextReverse ==
  \E input \in ReverseInputs, surface \in {OnTrackSurface, OffTrackSurface(params)} :
    ReverseTick(input, surface)

SpecReverse == InitReverse /\ [][NextReverse]_vars

\* a Grounded tick has been made
ReverseTicked == query.made /\ upd.branch = "grounded"

\* vF, the forward speed the last tick started from
ReverseBefore == ForwardSpeedMps(query.args.before)

\* the change of forward speed the last tick made, drag taken out: longA * dt
ReverseDrive ==
  (upd.vF2 - ReverseBefore)
  + Mul(Mul(DragSigned(params, ReverseBefore), query.args.surface.dragScale), DT)

\* brake * 0.4 * engineAccel * dt
ReverseStep ==
  Mul(Mul(query.args.input.brake, Mul(params.engineAccel, Fixed(4, 10))), DT)

\* equal up to the rounding of two products
Rounds(a, b) == Abs(a - b) <= 2

\* C27: reverse driving is engaged in a Grounded tick exactly when forward
\* speed < 2, brake > 0 and throttle = 0, accelerating backwards at
\* brake * 0.4 * engineAccel, and after every tick the forward speed is
\* >= -15.
C27_ReverseClamped ==
  ReverseTicked =>
    /\ IsReversing(query.args.input, ReverseBefore)
         => Rounds(ReverseDrive, -ReverseStep)
    /\ ~IsReversing(query.args.input, ReverseBefore) /\ ReverseBefore <= 0
         => ReverseDrive >= -2
    /\ ForwardSpeedMps(sim) >= -(15 * ONE)

\* what update() does: below the threshold, braking without throttle drives
\* the car backwards at brake * 0.4 * engineAccel while it is not yet faster
\* than 15 m/s backwards and not at all beyond; nothing else drives a car
\* backwards that is not moving forwards; so a tick leaves the forward speed
\* no lower than the lower of the speed before and -15 less one step of
\* reverse acceleration
C27_ReverseDrive ==
  ReverseTicked =>
    /\ IsReversing(query.args.input, ReverseBefore) /\ ReverseBefore >= -(15 * ONE)
         => Rounds(ReverseDrive, -ReverseStep)
    /\ IsReversing(query.args.input, ReverseBefore) /\ ReverseBefore < -(15 * ONE)
         => Rounds(ReverseDrive, 0)
    /\ ~IsReversing(query.args.input, ReverseBefore) /\ ReverseBefore <= 0
         => ReverseDrive >= -2
    /\ upd.vF2 >= Min(ReverseBefore, -(15 * ONE) - ReverseStep) - 2
    /\ ForwardSpeedMps(sim) = upd.vF2

\* the brake held in a car already faster than 15 m/s backwards: no reverse
\* drive, the car is still faster than 15 m/s backwards after the tick
C27_Witness ==
  /\ ReverseTicked
  /\ params = GameParams
  /\ IsReversing(query.args.input, ReverseBefore)
  /\ ReverseBefore < -(15 * ONE)
  /\ Rounds(ReverseDrive, 0)
  /\ ForwardSpeedMps(sim) < -(15 * ONE)

\* the limit crossed by the reverse drive itself: from 14.99 m/s backwards
\* the stronger engine takes the car beyond 15 m/s
C27_Overshoot ==
  /\ ReverseTicked
  /\ IsReversing(query.args.input, ReverseBefore)
  /\ ReverseBefore >= -(15 * ONE)
  /\ ForwardSpeedMps(sim) < -(15 * ONE)

\* reverse engaged from a forward roll just below the threshold
C27_BelowThreshold ==
  /\ ReverseTicked
  /\ ReverseBefore = Fixed(199, 100)
  /\ IsReversing(query.args.input, ReverseBefore)
  /\ ReverseStep > 0
  /\ Rounds(ReverseDrive, -ReverseStep)

\* at the threshold the brake brakes: brakeDecel, not the reverse drive
C27_AtThreshold ==
  /\ ReverseTicked
  /\ ReverseBefore = 2 * ONE
  /\ query.args.input = [throttle |-> 0, brake |-> ONE, handbrake |-> 0, steer |-> 0]
  /\ Rounds(ReverseDrive, -Mul(params.brakeDecel, DT))


\* ------------------------------------------------------------------------
\* activateNitroBoost called with any duration, between ticks
\* ------------------------------------------------------------------------
MaxBoostTicks == 3

MaxBoostCalls == 2

\* -2.5 s, 0 s, 1/120 s, 0.0125 s and 2.5 s
BoostDurations ==
  { DoubleOf(-1342177280, 0), DZero, StepSizeSeconds,
    DoubleOf(6710886, 429496730), SpeedPadBoostSeconds }

BoostMultipliers == {Fixed(3, 2), 3 * ONE}

InitBoost ==
  /\ sim = NewCarSim
  /\ params = GameParams
  /\ upd = NoUpdate
  /\ nitroLog = NoNitroCall
  /\ arranged = FALSE
  /\ carTicks = 0
  /\ InitNotCar

\* activateNitroBoost(duration, multiplier); the log counts the ticks since
BoostActivate(duration, multiplier) ==
  /\ nitroLog.calls < MaxBoostCalls
  /\ sim' = ActivateNitroBoost(sim, duration, multiplier)
  /\ nitroLog' = [dur |-> duration, mult |-> multiplier, ticks |-> 0,
                  calls |-> nitroLog.calls + 1]
  /\ UNCHANGED <<params, upd, arranged, carTicks>>
  /\ UNCHANGED NotCar

BoostTick ==
  /\ carTicks < MaxBoostTicks
  /\ SetCar(Update(sim, params, StepDt, FullThrottle, OnTrackSurface, FlatGround))
  /\ nitroLog' = [nitroLog EXCEPT !.ticks = @ + 1]
  /\ carTicks' = carTicks + 1
  /\ UNCHANGED <<params, arranged>>
  /\ UNCHANGED NotCar

NextBoost ==
  \/ \E d \in BoostDurations, m \in BoostMultipliers : BoostActivate(d, m)
  \/ BoostTick

SpecBoost == InitBoost /\ [][NextBoost]_vars

\* a tick has run since the last activateNitroBoost call, if any
AfterBoostTick == nitroLog.ticks > 0

NitroInvariants ==
  /\ DLeq(DZero, sim.nitroBoostTimeRemaining)
  /\ sim.nitroBoostMultiplier >= ONE
  /\ sim.nitroBoostTimeRemaining = DZero => sim.nitroBoostMultiplier = ONE

\* C28: after any sequence of activateNitroBoost calls (with any duration,
\* including 0 or negative) and ticks, nitroTimeRemaining >= 0 and
\* nitroMultiplier >= 1 hold after every tick, and whenever
\* nitroTimeRemaining = 0 after a tick the multiplier is 1.
C28_NitroInvariants == AfterBoostTick => NitroInvariants

\* what the code does: the invariants hold after every tick when the last
\* call, if any, gave a duration > 0
C28_PositiveDuration ==
  AfterBoostTick /\ (nitroLog.calls > 0 => DLess(DZero, nitroLog.dur))
    => NitroInvariants

\* activateNitroBoost(0, 3), then a tick: no time remaining, multiplier 3
C28_Witness ==
  /\ AfterBoostTick
  /\ nitroLog.dur = DZero
  /\ nitroLog.mult = 3 * ONE
  /\ sim.nitroBoostTimeRemaining = DZero
  /\ sim.nitroBoostMultiplier = 3 * ONE
  /\ ~IsNitroActive(sim)

\* activateNitroBoost(-2.5, 3), then ticks: the time remaining stays negative
C28_Negative ==
  /\ nitroLog.ticks = MaxBoostTicks
  /\ DLess(sim.nitroBoostTimeRemaining, DZero)
  /\ sim.nitroBoostMultiplier = 3 * ONE

\* a boost of one tick's length, ended by its first tick
C28_Ended ==
  /\ nitroLog.ticks = 1
  /\ nitroLog.dur = StepSizeSeconds
  /\ sim.nitroBoostTimeRemaining = DZero
  /\ sim.nitroBoostMultiplier = ONE


\* ------------------------------------------------------------------------
\* Reset requests between the frames of the render loop
\* ------------------------------------------------------------------------
MaxRequests == 2

\* frames of 8 ms (less than one step) and of 16.7 ms (two steps)
RequestDeltas ==
  { [seconds |-> DoubleOf(4294967, 317827580), tenthMs |-> 80],
    [seconds |-> DoubleOf(8965744, 247390116), tenthMs |-> 167] }

\* GameAPI.reset(), keydown of KeyR, the gamepad poll with button 0 pressed
ResetSources == {"reset", "KeyR", "buttonA"}

\* the requests made since the last tick
PendingRequests ==
  IF query.made /\ query.args.atTick = carTicks THEN query.args.pending ELSE 0

\* a toggle instead of a set
AskResetToggle(source) ==
  /\ pc = "idle"
  /\ PendingRequests < MaxRequests
  /\ gameInput' = [gameInput EXCEPT !.resetPressed = ~@]
  /\ query' = [made |-> TRUE,
               args |-> [source |-> source, atTick |-> carTicks,
                         atFrame |-> frame.frames,
                         pending |-> PendingRequests + 1]]
  /\ UNCHANGED <<carVars, course, jump, loopVars, clock, lapStartMs, lastS, laps,
                 bestLapSeconds, lapTimeSeconds, lapLog, tickLog, world>>

\* input.resetPressed = true, by an event handler, the gamepad poll or the
\* API between two frames; query keeps when it was made and the how-manieth
\* request since the last tick it is
AskReset(source) ==
  /\ pc = "idle"
  /\ PendingRequests < MaxRequests
  /\ gameInput' = [gameInput EXCEPT !.resetPressed = TRUE]
  /\ query' = [made |-> TRUE,
               args |-> [source |-> source, atTick |-> carTicks,
                         atFrame |-> frame.frames,
                         pending |-> PendingRequests + 1]]
  /\ UNCHANGED <<carVars, course, jump, loopVars, clock, lapStartMs, lastS, laps,
                 bestLapSeconds, lapTimeSeconds, lapLog, tickLog, world>>

NextRequest ==
  \/ \E delta \in RequestDeltas : OnFrame(delta)
  \/ FrameTick
  \/ StepReturn
  \/ \E source \in ResetSources : AskReset(source)

\* what the render loop does to pc and carTicks: a frame begins, the step
\* loop ticks while the accumulator holds a step, and returns
FrameRuns ==
  \/ pc = "idle" /\ frame.frames < MaxFrames /\ pc' = "stepping"
                 /\ carTicks' = carTicks
  \/ pc = "stepping" /\ StepAgain(accumulator, StepSizeSeconds)
                     /\ carTicks' = carTicks + 1 /\ pc' = pc
  \/ pc = "stepping" /\ ~StepAgain(accumulator, StepSizeSeconds)
                     /\ pc' = "idle" /\ carTicks' = carTicks

\* the engine keeps rendering frames, and tickSim returns from every tick
SpecRequest ==
  InitGame /\ [][NextRequest]_vars /\ WF_<<pc, carTicks>>(FrameRuns)

\* the reset step of a tick has run: the lap state and the car are reset
ResetApplied ==
  /\ laps' = 0
  /\ lastS' = 0
  /\ bestLapSeconds' = Null
  /\ lapStartMs' = clock
  /\ sim' = ResetSim(tickLog'.afterBarrier.sim)
  /\ sim'.position = StartSim.position
  /\ world'.damage = 0

\* a tick applies the reset exactly when one is pending, and clears the flag
TickAppliesReset ==
  carTicks' = carTicks + 1 =>
    /\ tickLog'.reset = gameInput.resetPressed
    /\ ~gameInput'.resetPressed
    /\ tickLog'.reset => ResetApplied
    /\ ~tickLog'.reset => sim' = tickLog'.afterBarrier.sim /\ laps' >= laps

\* outside the ticks a request only sets the flag, and nothing clears it
RequestKept ==
  carTicks' = carTicks =>
    /\ gameInput.resetPressed => gameInput'.resetPressed
    /\ gameInput' \in {gameInput, [gameInput EXCEPT !.resetPressed = TRUE]}
    /\ UNCHANGED <<sim, laps, lastS, bestLapSeconds, lapStartMs, world>>

\* a request is pending and the loop has two frames to go
RequestPending ==
  /\ gameInput.resetPressed
  /\ query.made
  /\ query.args.atTick = carTicks
  /\ pc = "idle"
  /\ frame.frames + 2 <= MaxFrames

\* the tick after the last request has applied the reset
AppliedNextTick ==
  /\ query.made
  /\ carTicks = query.args.atTick + 1
  /\ tickLog.reset
  /\ ~gameInput.resetPressed

\* C29: a reset request (GameAPI.reset(), the R key or the gamepad A button)
\* only sets resetPressed; it is applied in the next simulation tick that
\* reaches the reset step, exactly once however many requests were made
\* before that tick, resetPressed is false afterwards, and a request made in
\* a frame that runs zero ticks is not lost but applied in a later tick.
C29_ResetOnce ==
  /\ [][TickAppliesReset /\ RequestKept]_vars
  /\ RequestPending ~> AppliedNextTick

\* two requests, then a frame without a tick, then the tick that applies the
\* reset once
C29_Witness ==
  /\ AppliedNextTick
  /\ query.args.pending = 2
  /\ frame.frames >= query.args.atFrame + 2
  /\ laps = 0
  /\ sim.position = StartSim.position

\* the tick after an applied reset, no request in between: no reset
C29_NotAgain ==
  /\ query.made
  /\ carTicks = query.args.atTick + 2
  /\ tickLog.ran
  /\ ~tickLog.reset
  /\ sim.position # StartSim.position


\* ------------------------------------------------------------------------
\* The shared InputState under its three writers: the touch handlers
\* (input/TouchInput.ts, mode "zones"), the keyboard (input/KeyboardInput.ts)
\* and the gamepad poll (input/GamepadInput.ts); `course` holds the devices
\* ------------------------------------------------------------------------
MaxInputFrames == 2

\* no finger on the canvas
NoTouch == [held |-> FALSE, x |-> 0, y |-> 0]

\* one finger, at hundredths of the canvas width and height: the throttle
\* zone (top), the throttle zone steering left, the brake zone
TouchPoints ==
  { [held |-> TRUE, x |-> 50, y |-> 20], [held |-> TRUE, x |-> 20, y |-> 20],
    [held |-> TRUE, x |-> 50, y |-> 90] }

Keys == {"KeyW"}

\* navigator.getGamepads(): none connected, one at rest, one with the right
\* trigger pulled
NoPad == [connected |-> FALSE, steer |-> 0, brake |-> 0, throttle |-> 0,
          handbrake |-> 0, reset |-> FALSE]

PadStates ==
  { NoPad,
    [NoPad EXCEPT !.connected = TRUE],
    [NoPad EXCEPT !.connected = TRUE, !.throttle = ONE] }

NewDevices ==
  [ down |-> {}, touch |-> NoTouch, pad |-> NoPad, updates |-> 0, polls |-> 0,
    lastWriter |-> "none", touchTick |-> 0, downAtUpdate |-> {} ]

InitInput ==
  /\ sim = StartSim
  /\ params = GameParams
  /\ upd = NoUpdate
  /\ nitroLog = NoNitroCall
  /\ arranged = FALSE
  /\ carTicks = 0
  /\ course = NewDevices
  /\ query = NoQuery
  /\ jump = NoJump
  /\ InitLoop
  /\ InitLapState
  /\ gameInput = NoInput

\* a handler or callback outside tickSim: it writes the InputState and its
\* own state, nothing of the game
DeviceStep(input, devices) ==
  /\ gameInput' = input
  /\ course' = devices
  /\ UNCHANGED <<carVars, jump, query, loopVars, clock, lapStartMs, lastS, laps,
                 bestLapSeconds, lapTimeSeconds, lapLog, tickLog, world>>

\* every callback of the last animation frame has run: events are dispatched
\* between animation frames
BetweenFrames ==
  /\ pc = "idle"
  /\ course.updates = frame.frames
  /\ course.polls = frame.frames

\* processZoneTouch: the horizontal position steers
ZoneSteer(input, touch) ==
  IF touch.x < 35 THEN [input EXCEPT !.steer = -ONE]
  ELSE IF touch.x > 65 THEN [input EXCEPT !.steer = ONE]
  ELSE input

\* processZoneTouch: the top 40% is throttle, the bottom 30% brake
ProcessZoneTouch(input, touch) ==
  IF touch.y < 40 THEN [ZoneSteer(input, touch) EXCEPT !.throttle = ONE, !.brake = 0]
  ELSE IF touch.y > 70
  THEN [ZoneSteer(input, touch) EXCEPT !.throttle = 0, !.brake = ONE]
  ELSE ZoneSteer(input, touch)

\* input.steer = 0; input.throttle = 0; input.brake = 0
ZeroTouchInputs(input) == [input EXCEPT !.steer = 0, !.throttle = 0, !.brake = 0]

\* onTouchStart: the inputs are recomputed from the touches
OnTouchStart(point) ==
  /\ BetweenFrames
  /\ ~course.touch.held
  /\ DeviceStep(ProcessZoneTouch(ZeroTouchInputs(gameInput), point),
                [course EXCEPT !.touch = point, !.lastWriter = "touch",
                               !.touchTick = carTicks])

\* onTouchMove: the finger moves, or rests and is reported again
OnTouchMove(point) ==
  /\ BetweenFrames
  /\ course.touch.held
  /\ DeviceStep(ProcessZoneTouch(ZeroTouchInputs(gameInput), point),
                [course EXCEPT !.touch = point, !.lastWriter = "touch",
                               !.touchTick = IF point = course.touch THEN @
                                             ELSE carTicks])

\* onTouchEnd (touchend, touchcancel): no touch remains
OnTouchEnd ==
  /\ BetweenFrames
  /\ course.touch.held
  /\ DeviceStep(ZeroTouchInputs(gameInput),
                [course EXCEPT !.touch = NoTouch, !.lastWriter = "touch"])

\* onKeyDown, onKeyUp
OnKeyDown(code) ==
  /\ BetweenFrames
  /\ code \notin course.down
  /\ DeviceStep(gameInput, [course EXCEPT !.down = @ \cup {code}])

OnKeyUp(code) ==
  /\ BetweenFrames
  /\ code \in course.down
  /\ DeviceStep(gameInput, [course EXCEPT !.down = @ \ {code}])

\* onBlur: the keys are cleared, the inputs zeroed
OnBlur ==
  /\ BetweenFrames
  /\ course.down # {}
  /\ DeviceStep([gameInput EXCEPT !.throttle = 0, !.brake = 0, !.handbrake = 0,
                                  !.steer = 0],
                [course EXCEPT !.down = {}, !.lastWriter = "blur"])

\* the driver moves the gamepad, plugs it in or out
PadChange(pad) ==
  /\ BetweenFrames
  /\ pad # course.pad
  /\ DeviceStep(gameInput, [course EXCEPT !.pad = pad])

\* KeyboardInput update(): the inputs as the keys held give them
KeyboardInputs(input, down) ==
  [input EXCEPT
     !.throttle  = IF (("KeyW" \in down) \/ ("ArrowUp" \in down))
                      /\ ~(("KeyS" \in down) \/ ("ArrowDown" \in down))
                   THEN ONE ELSE 0,
     !.brake     = IF ("KeyS" \in down) \/ ("ArrowDown" \in down) THEN ONE ELSE 0,
     !.handbrake = IF "Space" \in down THEN ONE ELSE 0,
     !.steer     = IF (("KeyA" \in down) \/ ("ArrowLeft" \in down))
                      /\ ~(("KeyD" \in down) \/ ("ArrowRight" \in down))
                   THEN -ONE
                   ELSE IF (("KeyD" \in down) \/ ("ArrowRight" \in down))
                           /\ ~(("KeyA" \in down) \/ ("ArrowLeft" \in down))
                   THEN ONE ELSE 0]

\* update() of the keyboard, once in every animation frame, before or after
\* the other callbacks of the frame
KeyboardUpdate ==
  /\ pc = "idle"
  /\ course.updates < MaxInputFrames
  /\ course.updates <= course.polls
  /\ course.updates <= frame.frames
  /\ DeviceStep(KeyboardInputs(gameInput, course.down),
                [course EXCEPT !.updates = @ + 1, !.lastWriter = "keyboard",
                               !.downAtUpdate = course.down])

\* poll(): use = |steer| > 0.08 || brake > 0.05 || throttle > 0.05
PadInUse(pad) ==
  /\ pad.connected
  /\ \/ Abs(pad.steer) > Fixed(8, 100)
     \/ pad.brake > Fixed(5, 100)
     \/ pad.throttle > Fixed(5, 100)

PadInputs(input, pad) ==
  [input EXCEPT
     !.steer     = IF PadInUse(pad)
                   THEN (IF Abs(pad.steer) < Fixed(8, 100) THEN 0 ELSE pad.steer)
                   ELSE @,
     !.brake     = IF PadInUse(pad) THEN pad.brake ELSE @,
     !.throttle  = IF PadInUse(pad) THEN pad.throttle ELSE @,
     !.handbrake = IF PadInUse(pad) THEN pad.handbrake ELSE @,
     !.resetPressed = IF pad.connected /\ pad.reset THEN TRUE ELSE @]

\* poll() of the gamepad, once in every animation frame
GamepadPoll ==
  /\ pc = "idle"
  /\ course.polls < MaxInputFrames
  /\ course.polls <= course.updates
  /\ course.polls <= frame.frames
  /\ DeviceStep(PadInputs(gameInput, course.pad),
                [course EXCEPT !.polls = @ + 1,
                               !.lastWriter = IF PadInUse(course.pad)
                                              THEN "gamepad" ELSE @])

\* the render loop's callback of the animation frame: onFrame
InputFrame(delta) ==
  /\ frame.frames < MaxInputFrames
  /\ frame.frames <= course.updates
  /\ frame.frames <= course.polls
  /\ OnFrame(delta)

NextInput ==
  \/ \E point \in TouchPoints : OnTouchStart(point)
  \/ \E point \in TouchPoints : OnTouchMove(point)
  \/ OnTouchEnd
  \/ \E code \in Keys : OnKeyDown(code)
  \/ \E code \in Keys : OnKeyUp(code)
  \/ OnBlur
  \/ \E pad \in PadStates : PadChange(pad)
  \/ KeyboardUpdate
  \/ GamepadPoll
  \/ InputFrame([seconds |-> StepSizeSeconds, tenthMs |-> 83])
  \/ FrameTick
  \/ StepReturn

SpecInput == InitInput /\ [][NextInput]_vars

\* a tick has just run, the finger has been in the throttle zone since
\* before it, no key is held and no gamepad is in use
TouchThrottleTick ==
  /\ pc = "stepping"
  /\ frame.ticks > 0
  /\ course.touch.held
  /\ course.touch.y < 40
  /\ carTicks > course.touchTick
  /\ course.down = {}
  /\ ~PadInUse(course.pad)

\* C30: while a touch is held in a throttle zone (touch mode 'zones') and no
\* key is pressed and no gamepad is in use, input.throttle is 1 at every
\* simulation tick until the touch ends, under every interleaving of the
\* touch event handlers, the keyboard per-animation-frame update and the
\* gamepad poll.
C30_TouchThrottle == TouchThrottleTick => upd.input.throttle = ONE

\* what the code does: the tick takes what the last writer left - the
\* throttle of the touch when a touch handler ran after the last keyboard
\* update, the throttle of the keys (0 without a key) when the keyboard
\* update ran after the touch handler
C30_LastWriter ==
  TouchThrottleTick =>
    /\ upd.input.throttle = gameInput.throttle
    /\ course.lastWriter = "touch" => upd.input.throttle = ONE
    /\ course.lastWriter = "keyboard"
         => upd.input.throttle = KeyboardInputs(NoInput, course.downAtUpdate).throttle

\* the finger rests in the throttle zone, no key, no gamepad: the keyboard
\* update of the frame has zeroed the throttle, the tick runs without it
C30_Witness ==
  /\ TouchThrottleTick
  /\ course.pad = NoPad
  /\ course.lastWriter = "keyboard"
  /\ course.downAtUpdate = {}
  /\ gameInput.throttle = 0
  /\ upd.input.throttle = 0
  /\ ForwardSpeedMps(sim) = 0

\* the same touch in a frame whose keyboard update ran before the touch was
\* reported: the tick has the throttle
C30_TouchLast ==
  /\ TouchThrottleTick
  /\ course.lastWriter = "touch"
  /\ upd.input.throttle = ONE
  /\ ForwardSpeedMps(sim) > 0

====
